---- MODULE Spec2Model ----
(***************************************************************************)
(* Model of the Obsidian "Tight Lists Formatter" plugin:                   *)
(*   - the tight-list rewriter (the awk program of md-tight-lists.sh)      *)
(*     and the newline wrapper formatFile puts around it,                  *)
(*   - the folder-rule resolver shouldAutoFormatFile,                      *)
(*   - the auto-format scheduler (debounce timers, guard set, pipeline).   *)
(* Texts, lines and paths are sequences of one-character strings.          *)
(***************************************************************************)
EXTENDS Integers, Sequences, FiniteSets, Bags, TLC

VARIABLES
    content,        \* rewrite run: the document text formatFile reads
    records,        \* rewrite run: the records the script read in the first pass
    printed,        \* rewrite run: the records the script printed in the first pass
    formatted,      \* rewrite run: the script's stdout in the first pass
    once,           \* rewrite run: formattedResult of the first pass
    twice,          \* rewrite run: formattedResult of a second pass over it
    passes,         \* rewrite run: number of passes done (0..2)
    settings,       \* this.settings
    file,           \* resolver run: path of the file asked about
    resolved,       \* resolver run: shouldAutoFormatFile has returned
    shouldFormat,   \* resolver run: what shouldAutoFormatFile returned
    vault,          \* host: the stored text of every document
    active,         \* host: the file of the active Markdown view, NoFile if none
    selection,      \* host: the active editor has a non-empty selection
    timers,         \* host: the armed setTimeout timers, timer id -> file of its callback
    lastActiveFile,         \* this.lastActiveFile
    formatDebounceTimers,   \* this.formatDebounceTimers, file -> timer id
    currentlyFormatting,    \* this.currentlyFormatting
    runs,           \* the formatFile invocations that wait on an await, a bag
    unloaded,       \* onunload has run
    burst,          \* history: per file, the current burst of edit events
    mdformatAvailable,      \* this.mdformatAvailable (mdformatPath is set with it)
    pass,           \* pass run: one formatFile invocation and what it did
    selectionRun,   \* selection run: one formatSelection invocation and its editor
    cursorRun       \* cursor run: one formatFile invocation, the active editor's cursor

rwVars == <<content, records, printed, formatted, once, twice, passes>>

rsVars == <<file, resolved, shouldFormat>>

hostVars == <<vault, active, selection, timers>>

pluginVars == <<lastActiveFile, formatDebounceTimers, currentlyFormatting, runs,
                unloaded, burst>>

passVars == <<mdformatAvailable, pass>>

fsVars == <<selectionRun>>

crVars == <<cursorRun>>

vars == <<content, records, printed, formatted, once, twice, passes,
          settings, file, resolved, shouldFormat,
          vault, active, selection, timers,
          lastActiveFile, formatDebounceTimers, currentlyFormatting, runs,
          unloaded, burst, mdformatAvailable, pass, selectionRun, cursorRun>>

----------------------------------------------------------------------------
(* Bounds of the model                                                     *)

\* greatest number of lines of a generated document
MaxLines == 4

\* greatest number of folder rules in a generated rule table
MaxRules == 2

\* greatest number of timers armed or still referenced at one time
MaxTimers == 2

\* greatest number of formatFile invocations in flight at one time
MaxRuns == 2

\* greatest number of lines of a document of a pass run
MaxPassLines == 2

\* greatest number of lines of a document of a metadata run
MaxMetaLines == 6

\* greatest number of lines of a document of a selection run
MaxSelLines == 5

\* greatest count the history of a burst keeps of its timer fires
MaxFires == 2

----------------------------------------------------------------------------
(* Characters and strings                                                  *)

NL == "\n"

\* awk's [[:space:]] and JavaScript's white space, as far as a line can hold it
IsSpace(c) == c \in {" ", "\t", "\r"}

IsDigit(c) == c \in {"0", "1", "2", "3", "4", "5", "6", "7", "8", "9"}

\* String.prototype.endsWith('\n')
EndsWithNL(text) == Len(text) > 0 /\ text[Len(text)] = NL

\* String.prototype.trimEnd(): drops every trailing white-space character,
\* line terminators included
RECURSIVE trimEnd(_)
trimEnd(text) ==
    IF Len(text) = 0 THEN text
    ELSE IF IsSpace(text[Len(text)]) \/ text[Len(text)] = NL
         THEN trimEnd(SubSeq(text, 1, Len(text) - 1))
         ELSE text

\* awk's record splitting (RS = "\n"): a final record needs no terminator,
\* and a terminator at the very end opens no further record
RECURSIVE SplitRecords(_, _, _, _)
SplitRecords(text, i, cur, acc) ==
    IF i > Len(text)
    THEN IF cur = <<>> THEN acc ELSE Append(acc, cur)
    ELSE IF text[i] = NL
         THEN SplitRecords(text, i + 1, <<>>, Append(acc, cur))
         ELSE SplitRecords(text, i + 1, Append(cur, text[i]), acc)

Records(text) == SplitRecords(text, 1, <<>>, <<>>)

\* awk's print: every printed record is followed by ORS = "\n"
RECURSIVE Printed(_)
Printed(lines) ==
    IF lines = <<>> THEN <<>>
    ELSE Head(lines) \o <<NL>> \o Printed(Tail(lines))

----------------------------------------------------------------------------
(* The awk program of process_markdown                                     *)

FENCE == <<"-", "-", "-">>

\* match($0, /^[[:space:]]*/); indent = RLENGTH
RECURSIVE Indent(_)
Indent(line) ==
    IF line # <<>> /\ IsSpace(Head(line)) THEN 1 + Indent(Tail(line)) ELSE 0

Unindented(line) == SubSeq(line, Indent(line) + 1, Len(line))

RECURSIVE Digits(_)
Digits(s) == IF s # <<>> /\ IsDigit(Head(s)) THEN 1 + Digits(Tail(s)) ELSE 0

\* /^[[:space:]]*[0-9]+\.[[:space:]]/
IsOrderedItem(line) ==
    LET r == Unindented(line)
        d == Digits(r)
    IN  /\ d >= 1
        /\ Len(r) >= d + 2
        /\ r[d + 1] = "."
        /\ IsSpace(r[d + 2])

\* /^[[:space:]]*[-*+][[:space:]]/
IsUnorderedItem(line) ==
    LET r == Unindented(line)
    IN  /\ Len(r) >= 2
        /\ r[1] \in {"-", "*", "+"}
        /\ IsSpace(r[2])

IsListItem(line) == IsUnorderedItem(line) \/ IsOrderedItem(line)

Marker(line) == IF IsOrderedItem(line) THEN "ordered" ELSE Unindented(line)[1]

ListClass(line) == IF IsOrderedItem(line) THEN "ordered" ELSE "unordered"

\* BEGIN block; last_line is unset, which awk reads as ""
AwkBegin ==
    [in_frontmatter |-> FALSE, frontmatter_ended |-> FALSE, in_list |-> FALSE,
     prev_marker |-> "", prev_indent |-> -1, prev_list_class |-> "",
     last_line |-> <<>>, out |-> <<>>]

\* need_separator with top-level items compared by list class (ordered or
\* unordered) instead of by marker
need_separator_ByClass(st, NR, line) ==
    IF ~st.in_list /\ NR > 1 /\ st.last_line # <<>>
    THEN TRUE
    ELSE IF st.in_list
         THEN ListClass(line) # st.prev_list_class /\ st.prev_list_class # ""
         ELSE FALSE

\* "Determine if we need a separator"
need_separator(st, NR, line) ==
    IF ~st.in_list /\ NR > 1 /\ st.last_line # <<>>
    THEN TRUE
    ELSE IF st.in_list
         THEN IF Indent(line) = 0
              THEN Marker(line) # st.prev_marker
              ELSE ListClass(line) # st.prev_list_class /\ st.prev_list_class # ""
         ELSE FALSE

\* the list-item rule
ListItemRule(st, NR, line) ==
    [st EXCEPT !.in_list = TRUE,
               !.prev_marker = Marker(line),
               !.prev_indent = Indent(line),
               !.prev_list_class = ListClass(line),
               !.out = IF need_separator(st, NR, line)
                       THEN st.out \o <<<<>>, line>>
                       ELSE Append(st.out, line)]

\* NonListRule without the empty line printed after a list block
NonListRule_NoBlankAfterList(st, line) ==
    LET closes == st.in_list /\ line # <<>>
        inl == IF closes THEN FALSE ELSE st.in_list
        o2 == IF line # <<>> \/ ~inl THEN Append(st.out, line) ELSE st.out
    IN  [st EXCEPT !.in_list = inl,
                   !.prev_marker = IF closes THEN "" ELSE @,
                   !.prev_list_class = IF closes THEN "" ELSE @,
                   !.last_line = line,
                   !.out = o2]

\* NonListRule that prints a line only when it is not empty
NonListRule_DropsEmpty(st, line) ==
    LET closes == st.in_list /\ line # <<>>
        inl == IF closes THEN FALSE ELSE st.in_list
        o1 == IF closes THEN Append(st.out, <<>>) ELSE st.out
        o2 == IF line # <<>> THEN Append(o1, line) ELSE o1
    IN  [st EXCEPT !.in_list = inl,
                   !.prev_marker = IF closes THEN "" ELSE @,
                   !.prev_list_class = IF closes THEN "" ELSE @,
                   !.last_line = line,
                   !.out = o2]

\* the "Not a list item" rule followed by the last_line rule
NonListRule(st, line) ==
    LET closes == st.in_list /\ line # <<>>
        inl == IF closes THEN FALSE ELSE st.in_list
        o1 == IF closes THEN Append(st.out, <<>>) ELSE st.out
        o2 == IF line # <<>> \/ ~inl THEN Append(o1, line) ELSE o1
    IN  [st EXCEPT !.in_list = inl,
                   !.prev_marker = IF closes THEN "" ELSE @,
                   !.prev_list_class = IF closes THEN "" ELSE @,
                   !.last_line = line,
                   !.out = o2]

\* AwkRecord without the rule that passes metadata content through
AwkRecord_NoMetadataContent(st, NR, line) ==
    IF NR = 1 /\ line = FENCE
    THEN [st EXCEPT !.in_frontmatter = TRUE, !.out = Append(@, line)]
    ELSE IF st.in_frontmatter /\ line = FENCE
    THEN [st EXCEPT !.in_frontmatter = FALSE, !.frontmatter_ended = TRUE,
                    !.out = Append(@, line)]
    ELSE IF IsListItem(line)
    THEN ListItemRule(st, NR, line)
    ELSE NonListRule(st, line)

\* AwkRecord with the opening rule applied to a fence on any line outside
\* a metadata block
AwkRecord_Reopens(st, NR, line) ==
    IF ~st.in_frontmatter /\ line = FENCE
    THEN [st EXCEPT !.in_frontmatter = TRUE, !.out = Append(@, line)]
    ELSE IF st.in_frontmatter /\ line = FENCE
    THEN [st EXCEPT !.in_frontmatter = FALSE, !.frontmatter_ended = TRUE,
                    !.out = Append(@, line)]
    ELSE IF st.in_frontmatter
    THEN [st EXCEPT !.out = Append(@, line)]
    ELSE IF IsListItem(line)
    THEN ListItemRule(st, NR, line)
    ELSE NonListRule(st, line)

\* one record through the pattern-action rules, in program order
AwkRecord(st, NR, line) ==
    IF NR = 1 /\ line = FENCE
    THEN [st EXCEPT !.in_frontmatter = TRUE, !.out = Append(@, line)]
    ELSE IF st.in_frontmatter /\ line = FENCE
    THEN [st EXCEPT !.in_frontmatter = FALSE, !.frontmatter_ended = TRUE,
                    !.out = Append(@, line)]
    ELSE IF st.in_frontmatter
    THEN [st EXCEPT !.out = Append(@, line)]
    ELSE IF IsListItem(line)
    THEN ListItemRule(st, NR, line)
    ELSE NonListRule(st, line)

RECURSIVE AwkRun(_, _, _)
AwkRun(st, NR, lines) ==
    IF NR > Len(lines) THEN st
    ELSE AwkRun(AwkRecord(st, NR, lines[NR]), NR + 1, lines)

\* the lines process_markdown prints for the given input lines
process_markdown(lines) == AwkRun(AwkBegin, 1, lines).out

\* runTightListsScript: the script's stdout for the given stdin
runTightListsScript(text) == Printed(process_markdown(Records(text)))

\* formatFile: "Ensure content ends with newline for proper formatting"
ContentToFormat(text) == IF EndsWithNL(text) THEN text ELSE text \o <<NL>>

\* FormattedResult that never takes the added newline off again
FormattedResult_Untrimmed(text, stdout) == stdout

\* formatFile: "Preserve original newline ending", on the formatter's output
FormattedResult(text, stdout) == IF EndsWithNL(text) THEN stdout ELSE trimEnd(stdout)

\* formatFile on the internal rewriter path: the text it compares with the
\* text read and writes back when they differ
FormatText(text) == FormattedResult(text, runTightListsScript(ContentToFormat(text)))

----------------------------------------------------------------------------
(* shouldAutoFormatFile                                                    *)

\* String.prototype.startsWith
startsWith(s, p) == Len(p) <= Len(s) /\ SubSeq(s, 1, Len(p)) = p

\* String.prototype.charAt: "" past the end
charAt(s, i) == IF i >= 0 /\ i < Len(s) THEN s[i + 1] ELSE ""

\* isInFolder with the folder path matched as a bare string prefix
isInFolder_StringPrefix(filePath, folderPath) == startsWith(filePath, folderPath)

\* "Check if file is directly in this folder or in a subfolder"
isInFolder(filePath, folderPath) ==
    \/ startsWith(filePath, folderPath \o <<"/">>)
    \/ filePath = folderPath
    \/ startsWith(filePath, folderPath) /\ charAt(filePath, Len(folderPath)) = "/"

\* folderPath.split('/').length
depth(folderPath) == 1 + Cardinality({i \in 1..Len(folderPath) : folderPath[i] = "/"})

\* the loop body with every matching rule taken, whatever its depth
RuleStep_LastMatchWins(acc, filePath, rule) ==
    IF isInFolder(filePath, rule.path)
    THEN [maxDepth |-> depth(rule.path), shouldFormat |-> rule.enabled]
    ELSE acc

\* the loop body: one [folderPath, rule] entry
RuleStep(acc, filePath, rule) ==
    IF isInFolder(filePath, rule.path) /\ depth(rule.path) > acc.maxDepth
    THEN [maxDepth |-> depth(rule.path), shouldFormat |-> rule.enabled]
    ELSE acc

RECURSIVE RuleLoop(_, _, _, _)
RuleLoop(acc, filePath, rules, k) ==
    IF k > Len(rules) THEN acc
    ELSE RuleLoop(RuleStep(acc, filePath, rules[k]), filePath, rules, k + 1)

\* folderRules is the sequence of the table's entries in the order
\* Object.entries gives them; each entry is [path, enabled]
shouldAutoFormatFile(filePath, s) ==
    RuleLoop([maxDepth |-> -1, shouldFormat |-> s.autoFormatEnabled],
             filePath, s.folderRules, 1).shouldFormat

----------------------------------------------------------------------------
(* Settings                                                                *)

DEFAULT_SETTINGS ==
    [autoFormatEnabled |-> FALSE,
     useMdformat |-> FALSE,
     enableDelayBasedFormatting |-> TRUE,
     eventBasedFormatting |-> FALSE,
     formatOnFileOpen |-> TRUE,
     formatOnFocusGain |-> TRUE,
     formatOnFocusLoss |-> TRUE,
     folderRules |-> <<>>]

\* the parts of the state a run of another kind does not use
NoRewriteRun ==
    /\ content = <<>> /\ records = <<>> /\ printed = <<>> /\ formatted = <<>>
    /\ once = <<>> /\ twice = <<>> /\ passes = 0

NoResolverRun == file = <<>> /\ resolved = FALSE /\ shouldFormat = FALSE

NoScheduler ==
    /\ vault = <<>> /\ active = <<>> /\ selection = FALSE /\ timers = <<>>
    /\ lastActiveFile = <<>> /\ formatDebounceTimers = <<>>
    /\ currentlyFormatting = {} /\ runs = EmptyBag /\ unloaded = FALSE
    /\ burst = <<>>

NoPass == mdformatAvailable = FALSE /\ pass = <<>>

NoSelectionRun == selectionRun = <<>>

NoCursorRun == cursorRun = <<>>

----------------------------------------------------------------------------
(* Input documents of the rewrite runs                                     *)

LineShapes ==
    { <<"-", "-", "-">>,                \* the fence
      <<"-", " ", "a">>,                \* top-level items of the four classes
      <<"*", " ", "a">>,
      <<"+", " ", "a">>,
      <<"1", ".", " ", "a">>,
      <<"-", " ">>,                     \* an item whose text is not typed yet
      <<" ", "-", " ", "a">>,           \* a nested item
      <<>>,                             \* an empty line
      <<" ">>,                          \* a white-space-only line
      <<"a">> }                         \* prose

RECURSIVE Joined(_)
Joined(lines) ==
    IF lines = <<>> THEN <<>>
    ELSE IF Len(lines) = 1 THEN lines[1]
    ELSE Head(lines) \o <<NL>> \o Joined(Tail(lines))

\* a document of the given lines, with or without a final newline
Document(ls, nl) == IF nl THEN Joined(ls) \o <<NL>> ELSE Joined(ls)

----------------------------------------------------------------------------
(* Rewrite runs: a document is formatted, then formatted again             *)

InitRewrite ==
    /\ \E n \in 0..MaxLines : \E ls \in [1..n -> LineShapes] : \E nl \in BOOLEAN :
          content = Document(ls, nl)
    /\ records = <<>>
    /\ printed = <<>>
    /\ formatted = <<>>
    /\ once = <<>>
    /\ twice = <<>>
    /\ passes = 0
    /\ settings = DEFAULT_SETTINGS
    /\ NoResolverRun
    /\ NoScheduler
    /\ NoPass
    /\ NoSelectionRun
    /\ NoCursorRun

FormatOnce ==
    /\ passes = 0
    /\ records' = Records(ContentToFormat(content))
    /\ printed' = process_markdown(records')
    /\ formatted' = Printed(printed')
    /\ once' = FormattedResult(content, formatted')
    /\ passes' = 1
    /\ UNCHANGED <<content, twice, settings, rsVars, hostVars, pluginVars, passVars, fsVars, crVars>>

FormatAgain ==
    /\ passes = 1
    /\ twice' = FormatText(once)
    /\ passes' = 2
    /\ UNCHANGED <<content, records, printed, formatted, once, settings, rsVars,
                   hostVars, pluginVars, passVars, fsVars, crVars>>

NextRewrite == FormatOnce \/ FormatAgain

SpecRewrite == InitRewrite /\ [][NextRewrite]_vars

----------------------------------------------------------------------------
(* Reading a pass: the lines that went in and the lines that came out      *)

InLines == records

OutLines == printed

\* index of the fence that closes the metadata block opened on line 1,
\* 0 when line 1 opens none, Len + 1 when it is never closed
MetaEnd(lines) ==
    IF lines = <<>> \/ lines[1] # FENCE THEN 0
    ELSE IF \E k \in 2..Len(lines) : lines[k] = FENCE
         THEN CHOOSE k \in 2..Len(lines) :
                /\ lines[k] = FENCE
                /\ \A h \in 2..(k - 1) : lines[h] # FENCE
         ELSE Len(lines) + 1

\* the line is prose with something to read on it
IsProse(line) == ~IsListItem(line) /\ \E h \in 1..Len(line) : ~IsSpace(line[h])

\* how many non-empty lines there are up to and including line i
Rank(lines, i) == Cardinality({h \in 1..i : lines[h] # <<>>})

\* lines i < j with nothing but empty lines between them
Neighbours(lines, i, j) == i < j /\ \A h \in (i + 1)..(j - 1) : lines[h] = <<>>

\* index of the n-th non-empty line, 0 when there are fewer
NthNonEmpty(lines, n) ==
    IF \E q \in 1..Len(lines) : lines[q] # <<>> /\ Rank(lines, q) = n
    THEN CHOOSE q \in 1..Len(lines) : lines[q] # <<>> /\ Rank(lines, q) = n
    ELSE 0

----------------------------------------------------------------------------
(* Claims about the rewriter                                               *)

\* C1: formatting (the script inside formatFile's newline wrapper) a second
\* time gives the text the first pass gave
C1_Idempotent == passes = 2 => twice = once

\* C2: when line 1 is the fence and a later line is the fence too, the lines
\* up to and including the first later fence come out as they went in, with
\* no line added or dropped among them
C2_MetadataPreserved ==
    passes = 1 =>
        LET lines == Records(content)
            k == MetaEnd(lines)
            outl == OutLines
            written == Records(once)
        IN  (k >= 2 /\ k <= Len(lines)) =>
                /\ Len(outl) >= k
                /\ SubSeq(outl, 1, k) = SubSeq(lines, 1, k)
                /\ Len(written) >= k
                /\ SubSeq(written, 1, k) = SubSeq(lines, 1, k)

\* C2 witness: a closed metadata block holding an item-like line and an
\* empty line went through a pass
C2_Witness ==
    /\ passes = 1
    /\ LET lines == Records(content)
           k == MetaEnd(lines)
       IN  /\ k >= 4 /\ k <= Len(lines)
           /\ \E h \in 2..(k - 2) : IsListItem(lines[h]) /\ lines[h + 1] = <<>>

\* input lines i < j are top-level items past the metadata block, next to
\* each other but for empty lines
TopItemPair(lines, m, i, j) ==
    /\ i > m
    /\ IsListItem(lines[i]) /\ Indent(lines[i]) = 0
    /\ IsListItem(lines[j]) /\ Indent(lines[j]) = 0
    /\ Neighbours(lines, i, j)

\* C3: two top-level items with only empty lines between them come out with
\* exactly one empty line between them when their marker classes differ and
\* with none when they are equal
C3_MarkerSeparation ==
    passes = 1 =>
        LET inl == InLines
            outl == OutLines
            m == MetaEnd(inl)
        IN  \A i \in 1..Len(inl) : \A j \in (i + 1)..Len(inl) :
                TopItemPair(inl, m, i, j) =>
                    LET q == NthNonEmpty(outl, Rank(inl, i))
                        r == NthNonEmpty(outl, Rank(inl, j))
                    IN  /\ q > 0 /\ r > q
                        /\ outl[q] = inl[i]
                        /\ outl[r] = inl[j]
                        /\ Neighbours(outl, q, r)
                        /\ r - q - 1 = IF Marker(inl[i]) # Marker(inl[j])
                                       THEN 1 ELSE 0

\* C3 witness: a pass over two unordered top-level items of different
\* markers that touch, and two of one marker that an empty line parts
C3_Witness ==
    /\ passes = 1
    /\ LET inl == InLines
           m == MetaEnd(inl)
       IN  /\ \E i \in 1..(Len(inl) - 1) :
                 /\ TopItemPair(inl, m, i, i + 1)
                 /\ Marker(inl[i]) = "-" /\ Marker(inl[i + 1]) = "+"
           /\ \E i \in 1..(Len(inl) - 2) :
                 /\ TopItemPair(inl, m, i, i + 2)
                 /\ Marker(inl[i]) = Marker(inl[i + 2])

\* output lines q < r, past the metadata block and next to each other but for
\* empty lines, are an item followed by prose
ItemThenProse(lines, m, q, r) ==
    q > m /\ Neighbours(lines, q, r) /\ IsListItem(lines[q]) /\ IsProse(lines[r])

\* output lines q < r, past the metadata block and next to each other but for
\* empty lines, are prose followed by an item
ProseThenItem(lines, m, q, r) ==
    q > m /\ Neighbours(lines, q, r) /\ IsProse(lines[q]) /\ IsListItem(lines[r])

\* C4 as claimed: at every boundary between a list block and non-blank
\* prose, before or after the block, the output has exactly one empty line
C4_OneBlankAtEveryBoundary ==
    passes = 1 =>
        LET outl == OutLines
            m == MetaEnd(outl)
        IN  \A q \in 1..Len(outl) : \A r \in (q + 1)..Len(outl) :
                (ItemThenProse(outl, m, q, r) \/ ProseThenItem(outl, m, q, r))
                    => r - q - 1 = 1

\* C4 as amended: after a list block exactly one empty line comes before
\* the prose; before a list block the prose is followed by the empty lines
\* the input had there, and by one when it had none
C4_BoundaryBlank ==
    passes = 1 =>
        LET inl == InLines
            outl == OutLines
            m == MetaEnd(outl)
        IN  \A q \in 1..Len(outl) : \A r \in (q + 1)..Len(outl) :
                /\ ItemThenProse(outl, m, q, r) => r - q - 1 = 1
                /\ ProseThenItem(outl, m, q, r) =>
                      LET i == NthNonEmpty(inl, Rank(outl, q))
                          j == NthNonEmpty(inl, Rank(outl, r))
                      IN  /\ i > 0 /\ j > i
                          /\ inl[i] = outl[q] /\ inl[j] = outl[r]
                          /\ r - q - 1 = IF j - i - 1 = 0 THEN 1 ELSE j - i - 1

\* C4 witness: a pass whose output keeps two empty lines between prose and
\* the list block after it
C4_Witness ==
    /\ passes = 1
    /\ LET outl == OutLines
           m == MetaEnd(outl)
       IN  \E q \in 1..(Len(outl) - 3) :
               /\ ProseThenItem(outl, m, q, q + 3)
               /\ once = content

\* C5: the text formatFile computes ends with a line terminator exactly when
\* the text it read does
C5_TrailingNewline == passes = 1 => (EndsWithNL(once) <=> EndsWithNL(content))

\* C5 witness: a document without a final newline was changed by the pass,
\* and the result has no final newline
C5_Witness ==
    /\ passes = 1
    /\ ~EndsWithNL(content)
    /\ once # content
    /\ Len(once) > 0 /\ ~EndsWithNL(once)

\* the lines that hold more than white space, in order
ContentLines(lines) ==
    SelectSeq(lines, LAMBDA l : \E h \in 1..Len(l) : ~IsSpace(l[h]))

\* C6: line content is never altered: the lines formatFile writes back are,
\* empty separator lines aside, the lines it read, in the same order and
\* character for character (checked on the lines holding more than white
\* space, which are among the claim's non-empty lines)
C6_LineContentKept ==
    passes = 1 => ContentLines(Records(once)) = ContentLines(Records(content))

----------------------------------------------------------------------------
(* Resolver runs: shouldAutoFormatFile on a path and a rule table          *)

\* folder names; the first is a string prefix of the second
FolderNames == { <<"n">>, <<"n", "s">> }

Slash(p, q) == p \o <<"/">> \o q

\* vault paths of one and two segments
FolderPaths == FolderNames \cup { Slash(p, q) : p \in FolderNames, q \in FolderNames }

\* vault paths of one, two and three segments
FilePaths == FolderPaths \cup { Slash(p, q) : p \in FolderPaths, q \in FolderNames }

\* rule tables: at most MaxRules entries, no folder path twice
RuleTables ==
    UNION { { t \in [1..n -> [path : FolderPaths, enabled : BOOLEAN]] :
                \A i \in 1..n : \A j \in 1..n : t[i].path = t[j].path => i = j }
            : n \in 0..MaxRules }

InitResolve ==
    /\ \E t \in RuleTables : \E g \in BOOLEAN :
          settings = [DEFAULT_SETTINGS EXCEPT !.autoFormatEnabled = g,
                                              !.folderRules = t]
    /\ file \in FilePaths
    /\ resolved = FALSE
    /\ shouldFormat = FALSE
    /\ NoRewriteRun
    /\ NoScheduler
    /\ NoPass
    /\ NoSelectionRun
    /\ NoCursorRun

Resolve ==
    /\ ~resolved
    /\ shouldFormat' = shouldAutoFormatFile(file, settings)
    /\ resolved' = TRUE
    /\ UNCHANGED <<file, settings, rwVars, hostVars, pluginVars, passVars, fsVars, crVars>>

NextResolve == Resolve

SpecResolve == InitResolve /\ [][NextResolve]_vars

\* the path's segments
RECURSIVE Segments(_, _, _)
Segments(p, i, cur) ==
    IF i > Len(p) THEN <<cur>>
    ELSE IF p[i] = "/" THEN <<cur>> \o Segments(p, i + 1, <<>>)
    ELSE Segments(p, i + 1, Append(cur, p[i]))

SegmentsOf(p) == Segments(p, 1, <<>>)

\* the rule at folder path P covers document path D: D is P or lies below it
Covers(P, D) ==
    LET ps == SegmentsOf(P)
        ds == SegmentsOf(D)
    IN  Len(ps) <= Len(ds) /\ SubSeq(ds, 1, Len(ps)) = ps

\* the table without its k-th entry
WithoutRule(t, k) == SubSeq(t, 1, k - 1) \o SubSeq(t, k + 1, Len(t))

\* C7: the result is the enabled flag of the covering rule with the most
\* path segments, and the global autoFormatEnabled when no rule covers the path
C7_DeepestRuleWins ==
    resolved =>
        LET t == settings.folderRules
            covering == {k \in 1..Len(t) : Covers(t[k].path, file)}
        IN  IF covering = {}
            THEN shouldFormat = settings.autoFormatEnabled
            ELSE \E k \in covering :
                    /\ \A h \in covering \ {k} :
                          Len(SegmentsOf(t[h].path)) < Len(SegmentsOf(t[k].path))
                    /\ shouldFormat = t[k].enabled

\* C7 witness: two rules cover the path, the deeper one is stored first and
\* its flag, which is not the other's nor the global one, is the result
C7_Witness ==
    /\ resolved
    /\ LET t == settings.folderRules
       IN  /\ Len(t) = 2
           /\ Covers(t[1].path, file) /\ Covers(t[2].path, file)
           /\ Len(SegmentsOf(t[1].path)) > Len(SegmentsOf(t[2].path))
           /\ t[1].enabled # t[2].enabled
           /\ t[1].enabled # settings.autoFormatEnabled
           /\ shouldFormat = t[1].enabled

\* C8: a rule whose folder path P is neither the document path D nor
\* followed by '/' in D does not apply: the result is the one the table
\* gives without that rule
C8_OnlyWholeSegmentsMatch ==
    resolved =>
        LET t == settings.folderRules
        IN  \A k \in 1..Len(t) :
                ~(file = t[k].path \/ startsWith(file, t[k].path \o <<"/">>)) =>
                    shouldFormat =
                        shouldAutoFormatFile(file,
                            [settings EXCEPT !.folderRules = WithoutRule(t, k)])

\* C8 witness: the only rule's path is a string prefix of the document's
\* first folder name, its flag is not the global one, and the global one is
\* the result
C8_Witness ==
    /\ resolved
    /\ LET t == settings.folderRules
       IN  /\ Len(t) = 1
           /\ t[1].path = <<"n">>
           /\ startsWith(file, <<"n", "s", "/">>)
           /\ t[1].enabled # settings.autoFormatEnabled
           /\ shouldFormat = settings.autoFormatEnabled

----------------------------------------------------------------------------
(* The auto-format scheduler: the plugin's event handlers, its debounce     *)
(* timers and the formatFile invocations that wait on an await.  Timers     *)
(* all run with the one debounceDelay, so they expire in the order they     *)
(* were armed: `timers' is the queue of the armed ones, oldest first.       *)

\* the documents open in the workspace
FileA == <<"n", "/", "a">>

Files == {FileA}

\* no file: a null TFile, an absent active view
NoFile == <<>>

\* no timer: what Map.get returns for a missing key
NoTimer == 0

\* a document with a list the formatter tightens, its formatted text, and a
\* document without a list
Loose == <<"-", " ", "a", NL, NL, "-", " ", "a", NL>>

Tight == FormatText(Loose)

Prose == <<"a", NL>>

Texts == {Loose, Tight, Prose}

\* history of one burst of edit events of a document: the timer of its
\* latest edit, whether that timer is still armed (the burst is open), the
\* burst's timers still armed, how many of its timers have fired, how many
\* pipeline invocations they started, whether one fired that was not the
\* latest edit's
NoBurst ==
    [open |-> FALSE, last |-> NoTimer, pending |-> {}, fires |-> 0, runs |-> 0,
     stray |-> FALSE]

\* the plugin fields and host timer queue the handlers read and write
Plugin ==
    [map |-> formatDebounceTimers, tm |-> timers, guard |-> currentlyFormatting,
     rs |-> runs, b |-> burst]

Commit(p) ==
    /\ formatDebounceTimers' = p.map
    /\ timers' = p.tm
    /\ currentlyFormatting' = p.guard
    /\ runs' = p.rs
    /\ burst' = p.b

ArmedIds(tm) == { tm[i].id : i \in DOMAIN tm }

ReferencedIds(map) == { map[f] : f \in DOMAIN map } \ {NoTimer}

\* the state stays inside the bounds
Fits(p) ==
    /\ Len(p.tm) <= MaxTimers
    /\ \A id \in ArmedIds(p.tm) \cup ReferencedIds(p.map) : id <= MaxTimers
    /\ BagCardinality(p.rs) <= MaxRuns

\* the id setTimeout returns: one no armed timer has and no map entry holds
setTimeout(map, tm) ==
    CHOOSE id \in 1..(MaxTimers + 1) :
        /\ id \notin ArmedIds(tm) \cup ReferencedIds(map)
        /\ \A k \in 1..(id - 1) : k \in ArmedIds(tm) \cup ReferencedIds(map)

\* clearTimeout: an armed timer is disarmed, a fired one is left as it is
clearTimeout(tm, id) == SelectSeq(tm, LAMBDA e : e.id # id)

\* a burst that is over, none of its timers armed any more, and that fired
\* as one burst should is forgotten
Settled(b) ==
    IF b.pending = {} /\ b.fires <= 1 /\ b.runs <= 1 /\ ~b.stray THEN NoBurst ELSE b

\* the burst history after an edit event armed `timer' and cleared `existing'
BurstAfterEdit(old, existing, timer) ==
    IF old.open
    THEN [old EXCEPT !.last = timer,
                     !.pending = (@ \ {existing}) \cup {timer}]
    ELSE [NoBurst EXCEPT !.open = TRUE, !.last = timer, !.pending = {timer}]

\* scheduleAutoFormat: clear the timer the map holds for the file, arm a new
\* one, store it in the map; byEdit tells the edit handler's call from the
\* deferral's
scheduleAutoFormat(p, f, byEdit) ==
    LET existingTimer == p.map[f]
        tm1 == IF existingTimer # NoTimer THEN clearTimeout(p.tm, existingTimer)
                                          ELSE p.tm
        timer == setTimeout([p.map EXCEPT ![f] = NoTimer], tm1)
    IN  [p EXCEPT !.tm = Append(tm1, [id |-> timer, file |-> f]),
                  !.map[f] = timer,
                  !.b[f] = IF byEdit THEN BurstAfterEdit(@, existingTimer, timer)
                                     ELSE @]

\* formatFile up to its first await: the guard is set, the cursor of the
\* editor passed in is saved, the read is pending.  The cursor is saved before
\* the try block is entered: when the editor throws there (saved is FALSE),
\* the invocation ends at once and the finally block is not run
formatFile(p, f, origin, editor, saved) ==
    IF editor /\ ~saved
    THEN [p EXCEPT !.guard = @ \cup {f}]
    ELSE [p EXCEPT !.guard = @ \cup {f},
                   !.rs = @ (+) SetToBag({[file |-> f, origin |-> origin,
                                           pc |-> "read", content |-> <<>>,
                                           formatted |-> <<>>]})]

\* OnEditorChange with the global setting read in place of the resolved
\* policy
OnEditorChange_GlobalOnly(p, f) ==
    IF f \in p.guard
    THEN p
    ELSE IF settings.autoFormatEnabled /\ settings.enableDelayBasedFormatting
         THEN scheduleAutoFormat(p, f, TRUE)
         ELSE p

OnEditorChange_NoGuard(p, f) ==
    IF shouldAutoFormatFile(f, settings) /\ settings.enableDelayBasedFormatting
    THEN scheduleAutoFormat(p, f, TRUE)
    ELSE p

\* the editor-change handler
OnEditorChange(p, f) ==
    IF f \in p.guard
    THEN p
    ELSE IF shouldAutoFormatFile(f, settings) /\ settings.enableDelayBasedFormatting
         THEN scheduleAutoFormat(p, f, TRUE)
         ELSE p

\* triggerEventBasedFormat; activeFile is the file of the active view when the
\* handler runs
triggerEventBasedFormat(p, f, activeFile, saved) ==
    IF ~shouldAutoFormatFile(f, settings) THEN p
    ELSE IF ~settings.eventBasedFormatting THEN p
    ELSE IF f \in p.guard THEN p
    ELSE formatFile(p, f, "event", activeFile = f, saved)

\* the file-open handler
OnFileOpen(p, f, saved) ==
    IF settings.eventBasedFormatting /\ settings.formatOnFileOpen
    THEN triggerEventBasedFormat(p, f, f, saved)
    ELSE p

\* the active-leaf-change handler, but for its write of lastActiveFile
OnActiveLeafChange(p, currentFile, saved) ==
    LET p1 == IF /\ lastActiveFile # NoFile
                 /\ lastActiveFile # currentFile
                 /\ settings.eventBasedFormatting
                 /\ settings.formatOnFocusLoss
              THEN triggerEventBasedFormat(p, lastActiveFile, currentFile, saved)
              ELSE p
    IN  IF /\ lastActiveFile # currentFile
           /\ settings.eventBasedFormatting
           /\ settings.formatOnFocusGain
        THEN triggerEventBasedFormat(p1, currentFile, currentFile, saved)
        ELSE p1

\* the burst history after one of the file's timers fired
BurstAfterFire(old, id, started) ==
    IF id \notin old.pending
    THEN old
    ELSE Settled([old EXCEPT !.pending = @ \ {id},
                             !.open = @ /\ id # old.last,
                             !.fires = IF @ < MaxFires THEN @ + 1 ELSE @,
                             !.runs = IF started /\ @ < MaxFires THEN @ + 1 ELSE @,
                             !.stray = @ \/ id # old.last])

\* OnTimer with a fire under a selection dropped instead of deferred
OnTimer_DropsDeferred(p, e, saved) ==
    LET f == e.file
        deferred == active = f /\ selection
        policy == shouldAutoFormatFile(f, settings)
        p0 == [p EXCEPT !.tm = Tail(p.tm),
                        !.b[f] = BurstAfterFire(@, e.id, policy /\ ~deferred)]
    IN  IF policy /\ ~deferred
        THEN formatFile(p0, f, "timer", active # NoFile, saved)
        ELSE [p0 EXCEPT !.map[f] = NoTimer]

OnTimer_NoDeferral(p, e, saved) ==
    LET f == e.file
        policy == shouldAutoFormatFile(f, settings)
        p0 == [p EXCEPT !.tm = Tail(p.tm),
                        !.b[f] = BurstAfterFire(@, e.id, policy)]
    IN  IF policy
        THEN formatFile(p0, f, "timer", active # NoFile, saved)
        ELSE [p0 EXCEPT !.map[f] = NoTimer]

\* OnTimer with the policy taken as it was when the timer was armed
OnTimer_NoRecheck(p, e, saved) ==
    LET f == e.file
        deferred == active = f /\ selection
        p0 == [p EXCEPT !.tm = Tail(p.tm),
                        !.b[f] = BurstAfterFire(@, e.id, ~deferred)]
    IN  IF deferred
        THEN scheduleAutoFormat([p0 EXCEPT !.map[f] = NoTimer], f, FALSE)
        ELSE formatFile(p0, f, "timer", active # NoFile, saved)

\* the timer callback up to its first await
OnTimer(p, e, saved) ==
    LET f == e.file
        deferred == active = f /\ selection
        policy == shouldAutoFormatFile(f, settings)
        p0 == [p EXCEPT !.tm = Tail(p.tm),
                        !.b[f] = BurstAfterFire(@, e.id, policy /\ ~deferred)]
    IN  IF policy
        THEN IF deferred
             THEN scheduleAutoFormat([p0 EXCEPT !.map[f] = NoTimer], f, FALSE)
             ELSE formatFile(p0, f, "timer", active # NoFile, saved)
        ELSE [p0 EXCEPT !.map[f] = NoTimer]

\* the end of a formatFile invocation: its finally block and, in the timer
\* callback, the statement after the await
Finish(p, r) ==
    [p EXCEPT !.rs = @ (-) SetToBag({r}),
              !.guard = @ \ {r.file},
              !.map = IF r.origin = "timer" THEN [@ EXCEPT ![r.file] = NoTimer]
                                            ELSE @]

\* an await of formatFile resolves: the text read is kept in content, the
\* formattedResult in formatted
Advance(p, r, pc, text) ==
    [p EXCEPT !.rs = (@ (-) SetToBag({r}))
                     (+) SetToBag({IF pc = "modify"
                                   THEN [r EXCEPT !.pc = pc, !.formatted = text]
                                   ELSE [r EXCEPT !.pc = pc, !.content = text]})]

\* onunload
OnUnload(p) ==
    LET cleared == ReferencedIds(p.map)
    IN  [p EXCEPT !.tm = SelectSeq(@, LAMBDA e : e.id \notin cleared),
                  !.map = [f \in Files |-> NoTimer],
                  !.b = [f \in Files |->
                            Settled([@[f] EXCEPT
                                        !.pending = @ \ cleared,
                                        !.open = @ /\ p.b[f].last \notin cleared])]]

Init ==
    /\ NoRewriteRun
    /\ NoResolverRun
    /\ NoPass
    /\ NoSelectionRun
    /\ NoCursorRun
    /\ \E auto \in BOOLEAN, event \in BOOLEAN :
           settings = [DEFAULT_SETTINGS EXCEPT
                          !.autoFormatEnabled = auto,
                          !.eventBasedFormatting = event,
                          !.folderRules = <<[path |-> <<"s">>, enabled |-> FALSE]>>]
    /\ vault \in [Files -> Texts]
    /\ active = NoFile
    /\ selection = FALSE
    /\ timers = <<>>
    /\ lastActiveFile = NoFile
    /\ formatDebounceTimers = [f \in Files |-> NoTimer]
    /\ currentlyFormatting = {}
    /\ runs = EmptyBag
    /\ unloaded = FALSE
    /\ burst = [f \in Files |-> NoBurst]

\* the user changes the text of the active document
EditorChange(text) ==
    /\ ~unloaded
    /\ active # NoFile
    /\ text # vault[active]
    /\ Fits(OnEditorChange(Plugin, active))
    /\ vault' = [vault EXCEPT ![active] = text]
    /\ Commit(OnEditorChange(Plugin, active))
    /\ UNCHANGED <<active, selection, lastActiveFile, unloaded, settings,
                   rwVars, rsVars, passVars, fsVars, crVars>>

\* the oldest armed timer expires and its callback runs
TimerFire(saved) ==
    /\ timers # <<>>
    /\ Fits(OnTimer(Plugin, Head(timers), saved))
    /\ Commit(OnTimer(Plugin, Head(timers), saved))
    /\ UNCHANGED <<vault, active, selection, lastActiveFile, unloaded, settings,
                   rwVars, rsVars, passVars, fsVars, crVars>>

\* the ribbon icon or the command "Format current file"
FormatCurrentFile(saved) ==
    /\ ~unloaded
    /\ active # NoFile
    /\ Fits(formatFile(Plugin, active, "manual", TRUE, saved))
    /\ Commit(formatFile(Plugin, active, "manual", TRUE, saved))
    /\ UNCHANGED <<vault, active, selection, lastActiveFile, unloaded, settings,
                   rwVars, rsVars, passVars, fsVars, crVars>>

\* a file is opened in the active leaf
FileOpen(f, saved) ==
    /\ ~unloaded
    /\ Fits(OnFileOpen(Plugin, f, saved))
    /\ active' = f
    /\ selection' = FALSE
    /\ Commit(OnFileOpen(Plugin, f, saved))
    /\ UNCHANGED <<vault, lastActiveFile, unloaded, settings, rwVars, rsVars, passVars, fsVars, crVars>>

\* the leaf that shows f becomes the active one; its editor may hold a
\* selection
ActiveLeafChange(f, sel, saved) ==
    /\ ~unloaded
    /\ Fits(OnActiveLeafChange(Plugin, f, saved))
    /\ active' = f
    /\ selection' = sel
    /\ lastActiveFile' = f
    /\ Commit(OnActiveLeafChange(Plugin, f, saved))
    /\ UNCHANGED <<vault, unloaded, settings, rwVars, rsVars, passVars, fsVars, crVars>>

\* the user selects text in the active editor, or drops the selection
Select ==
    /\ active # NoFile
    /\ selection' = ~selection
    /\ UNCHANGED <<vault, active, timers, pluginVars, settings, rwVars, rsVars, passVars, fsVars, crVars>>

\* the command "Toggle auto-format"
ToggleAutoFormat ==
    /\ ~unloaded
    /\ settings' = [settings EXCEPT !.autoFormatEnabled = ~@]
    /\ UNCHANGED <<hostVars, pluginVars, rwVars, rsVars, passVars, fsVars, crVars>>

\* vault.read resolves
ReadDone(r) ==
    /\ r.pc = "read"
    /\ Commit(Advance(Plugin, r, "format", vault[r.file]))
    /\ UNCHANGED <<vault, active, selection, lastActiveFile, unloaded, settings,
                   rwVars, rsVars, passVars, fsVars, crVars>>

FormatDone_AlwaysWrites(r) ==
    /\ r.pc = "format"
    /\ Commit(Advance(Plugin, r, "modify", FormatText(r.content)))
    /\ UNCHANGED <<vault, active, selection, lastActiveFile, unloaded, settings,
                   rwVars, rsVars, passVars, fsVars, crVars>>

\* runFormatter resolves: the result is compared with what was read, and
\* written if it differs
FormatDone(r) ==
    /\ r.pc = "format"
    /\ LET formattedResult == FormatText(r.content)
       IN  IF formattedResult # r.content
           THEN Commit(Advance(Plugin, r, "modify", formattedResult))
           ELSE Commit(Finish(Plugin, r))
    /\ UNCHANGED <<vault, active, selection, lastActiveFile, unloaded, settings,
                   rwVars, rsVars, passVars, fsVars, crVars>>

\* vault.modify resolves; an editor that shows the file takes the new text
\* and reports an editor-change, which is handled before the invocation ends
ModifyDone(r, shown) ==
    /\ r.pc = "modify"
    /\ shown \/ r.file # active
    /\ LET echo == shown /\ ~unloaded /\ vault[r.file] # r.formatted
           p1 == IF echo THEN OnEditorChange(Plugin, r.file) ELSE Plugin
       IN  /\ Fits(Finish(p1, r))
           /\ Commit(Finish(p1, r))
    /\ vault' = [vault EXCEPT ![r.file] = r.formatted]
    /\ UNCHANGED <<active, selection, lastActiveFile, unloaded, settings,
                   rwVars, rsVars, passVars, fsVars, crVars>>

\* vault.read, runFormatter or vault.modify rejects: the catch block logs,
\* the invocation ends
Reject(r) ==
    /\ Commit(Finish(Plugin, r))
    /\ UNCHANGED <<vault, active, selection, lastActiveFile, unloaded, settings,
                   rwVars, rsVars, passVars, fsVars, crVars>>

\* the plugin is disabled
Unload ==
    /\ ~unloaded
    /\ unloaded' = TRUE
    /\ Commit(OnUnload(Plugin))
    /\ UNCHANGED <<vault, active, selection, lastActiveFile, settings,
                   rwVars, rsVars, passVars, fsVars, crVars>>

Next ==
    \/ \E text \in Texts : EditorChange(text)
    \/ \E saved \in BOOLEAN : TimerFire(saved)
    \/ \E saved \in BOOLEAN : FormatCurrentFile(saved)
    \/ \E f \in Files, saved \in BOOLEAN : FileOpen(f, saved)
    \/ \E f \in Files, sel \in BOOLEAN, saved \in BOOLEAN :
           ActiveLeafChange(f, sel, saved)
    \/ Select
    \/ ToggleAutoFormat
    \/ \E r \in BagToSet(runs) : ReadDone(r)
    \/ \E r \in BagToSet(runs) : FormatDone(r)
    \/ \E r \in BagToSet(runs), shown \in BOOLEAN : ModifyDone(r, shown)
    \/ \E r \in BagToSet(runs) : Reject(r)
    \/ Unload

Spec == Init /\ [][Next]_vars

----------------------------------------------------------------------------
(* C9: at any moment at most one debounce timer is armed for a document.   *)
C9_OneArmedTimerPerDocument ==
    \A f \in Files :
        Cardinality({ i \in DOMAIN timers : timers[i].file = f }) <= 1

(* C10: the timers armed by the edit events of one burst fire at most      *)
(* once in all and start at most one pipeline invocation, and the one that *)
(* fires is the timer of the burst's last edit.                            *)
C10_BurstFiresOnce ==
    \A f \in Files :
        /\ burst[f].fires <= 1
        /\ burst[f].runs <= 1
        /\ ~burst[f].stray

(* C11: for one document at most one formatFile invocation is in flight,   *)
(* whatever started it.                                                    *)
C11_OneRunPerDocument ==
    \A f \in Files :
        BagCardinality([r \in { x \in BagToSet(runs) : x.file = f } |-> runs[r]]) <= 1

(* C12: a formatFile invocation that has ended, on whatever path, has      *)
(* removed its document from currentlyFormatting: a document is guarded    *)
(* only while an invocation for it is in flight.                           *)
C12_GuardReleasedOnExit ==
    \A f \in currentlyFormatting : \E r \in BagToSet(runs) : r.file = f

\* a timer fire finds the timer's document in the active view with a
\* selection (a fire takes a timer from the queue and leaves the store as it
\* is, which is tested first)
FireUnderSelection ==
    /\ selection
    /\ timers # <<>>
    /\ active = Head(timers).file
    /\ timers' # timers
    /\ vault' = vault
    /\ unloaded' = unloaded
    /\ \E saved \in BOOLEAN : TimerFire(saved)

\* the fire starts no invocation and writes nothing, and one timer more is
\* armed for the document, held by the map
Rearmed ==
    /\ runs' = runs
    /\ currentlyFormatting' = currentlyFormatting
    /\ vault' = vault
    /\ \E id \in 1..MaxTimers :
           /\ id \notin ArmedIds(Tail(timers))
           /\ timers' = Append(Tail(timers), [id |-> id, file |-> Head(timers).file])
           /\ formatDebounceTimers'[Head(timers).file] = id

\* the fire starts no invocation and writes nothing, and arms no timer
Dropped ==
    /\ runs' = runs
    /\ currentlyFormatting' = currentlyFormatting
    /\ vault' = vault
    /\ timers' = Tail(timers)

GuardedEdit ==
    /\ active \in currentlyFormatting
    /\ vault' # vault
    /\ \E text \in Texts : EditorChange(text)

(* C14: an editor-change event for a document that is in                   *)
(* currentlyFormatting changes nothing: no timer is armed, re-armed or     *)
(* cancelled and no invocation is started.                                 *)
C14_GuardedEditIgnored ==
    [][GuardedEdit
          => UNCHANGED <<timers, formatDebounceTimers, currentlyFormatting, runs>>]_vars

\* the document was edited after an invocation read it, the invocation is
\* still in flight, and no timer is armed
C14_Witness ==
    /\ FileA \in currentlyFormatting
    /\ timers = <<>>
    /\ formatDebounceTimers[FileA] = NoTimer
    /\ \E r \in BagToSet(runs) :
           r.pc = "format" /\ r.content = Loose /\ vault[r.file] = Prose
    /\ BagCardinality(runs) = 1

(* C16: formatFile issues a write only when the formatted text differs     *)
(* from the text it read.                                                  *)
C16_WritesOnlyChanges ==
    \A r \in BagToSet(runs) :
        r.pc = "modify" => r.formatted # r.content /\ r.formatted = FormatText(r.content)

\* a write is pending
C16_Witness ==
    \E r \in BagToSet(runs) : r.pc = "modify" /\ r.content = Loose /\ r.formatted = Tight

(* C17: once onunload has run, no debounce timer is armed any more.        *)
C17_NoTimerAfterUnload == unloaded => timers = <<>>

\* a write-back lands and changes the stored text
WriteBack(r) ==
    /\ vault' # vault
    /\ r.pc = "modify"
    /\ \E shown \in BOOLEAN : ModifyDone(r, shown)

(* C18: a write-back never replaces a text other than the one its          *)
(* invocation read: no change made to the document between the read and   *)
(* the write-back is overwritten.                                          *)
C18_WriteBackKeepsEdits ==
    [][\A r \in BagToSet(runs) : WriteBack(r) => vault[r.file] = r.content]_vars

----------------------------------------------------------------------------
(* Pass runs: one formatFile invocation from its call to its end, alone,   *)
(* with the formatter it runs and the notices it shows.                    *)

\* who calls formatFile: formatCurrentFile, the timer callback,
\* triggerEventBasedFormat
Callers == {"manual", "timer", "event"}

\* how a spawned formatter ends: spawn error, exit code other than 0, exit
\* code 0
Outcomes == {"error", "exit", "close0"}

\* what mdformat may print for an input: nothing, an empty line, the input,
\* the input with its lists tightened
MdformatOutputs(text) == { <<>>, <<NL>>, text, runTightListsScript(text) }

\* runMdformat: rejects on a spawn error, on an exit code other than 0 and
\* on output that is empty or white space
runMdformat(outcome, stdout) ==
    IF outcome = "close0" /\ trimEnd(stdout) # <<>>
    THEN [ok |-> TRUE, text |-> stdout]
    ELSE [ok |-> FALSE, text |-> <<>>]

\* runTightListsScript as a process: rejects on a spawn error and on an exit
\* code other than 0
ScriptProcess(outcome, text) ==
    IF outcome = "close0"
    THEN [ok |-> TRUE, text |-> runTightListsScript(text)]
    ELSE [ok |-> FALSE, text |-> <<>>]

runFormatter_FallsBack(s, available, outcome, stdout, text) ==
    IF s.useMdformat /\ available /\ runMdformat(outcome, stdout).ok
    THEN [res |-> runMdformat(outcome, stdout), ran |-> {"mdformat"}]
    ELSE [res |-> ScriptProcess("close0", text),
          ran |-> IF s.useMdformat /\ available THEN {"mdformat", "script"}
                                                  ELSE {"script"}]

\* runFormatter: mdformat if it is requested and was found at load, the
\* script otherwise; ran tells which was spawned
runFormatter(s, available, outcome, stdout, text) ==
    IF s.useMdformat /\ available
    THEN [res |-> runMdformat(outcome, stdout), ran |-> {"mdformat"}]
    ELSE [res |-> ScriptProcess(outcome, text), ran |-> {"script"}]

\* new Notice(...), unless the pass is silent
Notice(p, kind) ==
    IF p.silent THEN p ELSE [p EXCEPT !.notices = Append(@, kind)]

\* the finally block
Finally(p) == [p EXCEPT !.pc = "done", !.guarded = FALSE]

\* the catch block, entered from the await named by stage
Catch(p, stage) == Finally(Notice([p EXCEPT !.failedIn = stage], "failed"))

InitPass ==
    /\ NoRewriteRun
    /\ NoResolverRun
    /\ NoScheduler
    /\ \E md \in BOOLEAN : settings = [DEFAULT_SETTINGS EXCEPT !.useMdformat = md]
    /\ mdformatAvailable \in BOOLEAN
    /\ NoSelectionRun
    /\ NoCursorRun
    /\ \E n \in 0..MaxPassLines : \E ls \in [1..n -> LineShapes] :
       \E nl \in BOOLEAN, caller \in Callers, editor \in BOOLEAN :
           /\ caller = "manual" => editor
           /\ pass = [pc |-> "call", caller |-> caller, silent |-> caller # "manual",
                      editor |-> editor, guarded |-> FALSE,
                      original |-> Document(ls, nl), stored |-> Document(ls, nl),
                      content |-> <<>>, formatted |-> <<>>, ran |-> {},
                      wrote |-> FALSE, failedIn |-> "none", notices |-> <<>>]

\* formatFile is entered: the guard is set and the cursor saved, which may
\* throw before the try block is reached
PassEnter(saved) ==
    /\ pass.pc = "call"
    /\ pass' = IF pass.editor /\ ~saved
               THEN [pass EXCEPT !.pc = "thrown", !.guarded = TRUE,
                                 !.failedIn = "cursor"]
               ELSE [pass EXCEPT !.pc = "read", !.guarded = TRUE]
    /\ UNCHANGED <<settings, mdformatAvailable, rwVars, rsVars, hostVars, pluginVars,
                   fsVars, crVars>>

\* await vault.read
PassRead(ok) ==
    /\ pass.pc = "read"
    /\ pass' = IF ok THEN [pass EXCEPT !.pc = "format", !.content = pass.stored]
                     ELSE Catch(pass, "read")
    /\ UNCHANGED <<settings, mdformatAvailable, rwVars, rsVars, hostVars, pluginVars,
                   fsVars, crVars>>

\* await runFormatter, then the comparison with the text read
PassFormat(outcome, which) ==
    /\ pass.pc = "format"
    /\ LET contentToFormat == ContentToFormat(pass.content)
           stdout == IF which = 1 THEN <<>>
                     ELSE IF which = 2 THEN <<NL>>
                     ELSE IF which = 3 THEN contentToFormat
                     ELSE runTightListsScript(contentToFormat)
           run == runFormatter(settings, mdformatAvailable, outcome, stdout,
                               contentToFormat)
           formattedResult == FormattedResult(pass.content, run.res.text)
           p == [pass EXCEPT !.ran = @ \cup run.ran]
       IN  /\ stdout \in MdformatOutputs(contentToFormat)
           /\ pass' = IF ~run.res.ok THEN Catch(p, "format")
                      ELSE IF formattedResult # pass.content
                           THEN [p EXCEPT !.pc = "modify", !.formatted = formattedResult]
                           ELSE Finally(Notice(p, "unchanged"))
    /\ UNCHANGED <<settings, mdformatAvailable, rwVars, rsVars, hostVars, pluginVars,
                   fsVars, crVars>>

\* await vault.modify
PassModify(ok) ==
    /\ pass.pc = "modify"
    /\ pass' = IF ok
               THEN Finally(Notice([pass EXCEPT !.stored = pass.formatted,
                                                !.wrote = TRUE], "success"))
               ELSE Catch(pass, "modify")
    /\ UNCHANGED <<settings, mdformatAvailable, rwVars, rsVars, hostVars, pluginVars,
                   fsVars, crVars>>

NextPass ==
    \/ \E saved \in BOOLEAN : PassEnter(saved)
    \/ \E ok \in BOOLEAN : PassRead(ok)
    \/ \E outcome \in Outcomes, which \in 1..4 : PassFormat(outcome, which)
    \/ \E ok \in BOOLEAN : PassModify(ok)

SpecPass == InitPass /\ [][NextPass]_vars

\* C15 (as stated): whenever the external formatter is requested and it
\* fails in any way, the binary not having been found included, the document
\* is left as it was, nothing is written and the script is not run.
C15_NoFallbackWhenRequested ==
    (settings.useMdformat /\ (~mdformatAvailable \/ pass.failedIn = "format")) =>
        /\ "script" \notin pass.ran
        /\ ~pass.wrote
        /\ pass.stored = pass.original

\* C15 (amended): when the external formatter is requested and was found at
\* load, the script is never run, and a failure of the formatter at run time
\* (spawn error, exit code other than 0, empty output) leaves the document
\* as it was with nothing written; when it was not found at load, the
\* script formats the document and the external formatter is not run.
C15_ExternalFailureLeavesDocument ==
    /\ (settings.useMdformat /\ mdformatAvailable) =>
           /\ "script" \notin pass.ran
           /\ pass.failedIn = "format" =>
                  (~pass.wrote /\ pass.stored = pass.original)
    /\ (settings.useMdformat /\ ~mdformatAvailable) => "mdformat" \notin pass.ran

\* C15 witness: the external formatter was requested, found, run and failed
\* on a document the script would have changed.
C15_Witness ==
    /\ settings.useMdformat
    /\ mdformatAvailable
    /\ pass.pc = "done"
    /\ pass.failedIn = "format"
    /\ pass.ran = {"mdformat"}
    /\ FormattedResult(pass.content,
                       runTightListsScript(ContentToFormat(pass.content))) # pass.content

\* C20: a silent pass never shows a notice; a manual pass that has ended has
\* shown exactly one notice: success, no changes, or failure.
C20_OneNoticePerManualPass ==
    /\ pass.silent => pass.notices = <<>>
    /\ (~pass.silent /\ pass.pc \in {"done", "thrown"}) =>
           /\ Len(pass.notices) = 1
           /\ pass.notices[1] \in {"success", "unchanged", "failed"}

----------------------------------------------------------------------------
(* Settings runs: the settings tab and the 'Toggle auto-format' command,   *)
(* from the default settings.                                              *)

InitSettings ==
    /\ NoRewriteRun
    /\ NoResolverRun
    /\ NoScheduler
    /\ settings = DEFAULT_SETTINGS
    /\ mdformatAvailable \in BOOLEAN
    /\ pass = <<>>
    /\ NoSelectionRun
    /\ NoCursorRun

\* 'Enable global automatic formatting': switching it on with no mode
\* enabled enables the delay-based mode first
SetAutoFormat(value) ==
    /\ value # settings.autoFormatEnabled
    /\ settings' =
           IF value /\ ~settings.enableDelayBasedFormatting
                    /\ ~settings.eventBasedFormatting
           THEN [settings EXCEPT !.enableDelayBasedFormatting = TRUE,
                                 !.autoFormatEnabled = value]
           ELSE [settings EXCEPT !.autoFormatEnabled = value]
    /\ UNCHANGED <<hostVars, pluginVars, rwVars, rsVars, passVars, fsVars, crVars>>

\* 'Use mdformat', shown when mdformat was found at load
SetUseMdformat(value) ==
    /\ mdformatAvailable
    /\ value # settings.useMdformat
    /\ settings' = [settings EXCEPT !.useMdformat = value]
    /\ UNCHANGED <<hostVars, pluginVars, rwVars, rsVars, passVars, fsVars, crVars>>

\* 'Delay-based auto-formatting mode': switching off the last enabled mode
\* while auto-formatting is on is refused
SetDelayBased(value) ==
    /\ value # settings.enableDelayBasedFormatting
    /\ settings' =
           IF ~value /\ settings.autoFormatEnabled /\ ~settings.eventBasedFormatting
           THEN settings
           ELSE [settings EXCEPT !.enableDelayBasedFormatting = value]
    /\ UNCHANGED <<hostVars, pluginVars, rwVars, rsVars, passVars, fsVars, crVars>>

\* 'Event-based auto-formatting mode': switching off the last enabled mode
\* while auto-formatting is on is refused
SetEventBased(value) ==
    /\ value # settings.eventBasedFormatting
    /\ settings' =
           IF ~value /\ settings.autoFormatEnabled
                     /\ ~settings.enableDelayBasedFormatting
           THEN settings
           ELSE [settings EXCEPT !.eventBasedFormatting = value]
    /\ UNCHANGED <<hostVars, pluginVars, rwVars, rsVars, passVars, fsVars, crVars>>

\* the event trigger options, shown while the event-based mode is enabled
SetFormatOnFileOpen(value) ==
    /\ settings.eventBasedFormatting
    /\ value # settings.formatOnFileOpen
    /\ settings' = [settings EXCEPT !.formatOnFileOpen = value]
    /\ UNCHANGED <<hostVars, pluginVars, rwVars, rsVars, passVars, fsVars, crVars>>

SetFormatOnFocusGain(value) ==
    /\ settings.eventBasedFormatting
    /\ value # settings.formatOnFocusGain
    /\ settings' = [settings EXCEPT !.formatOnFocusGain = value]
    /\ UNCHANGED <<hostVars, pluginVars, rwVars, rsVars, passVars, fsVars, crVars>>

SetFormatOnFocusLoss(value) ==
    /\ settings.eventBasedFormatting
    /\ value # settings.formatOnFocusLoss
    /\ settings' = [settings EXCEPT !.formatOnFocusLoss = value]
    /\ UNCHANGED <<hostVars, pluginVars, rwVars, rsVars, passVars, fsVars, crVars>>

NextSettings ==
    \/ \E value \in BOOLEAN : SetAutoFormat(value)
    \/ \E value \in BOOLEAN : SetUseMdformat(value)
    \/ \E value \in BOOLEAN : SetDelayBased(value)
    \/ \E value \in BOOLEAN : SetEventBased(value)
    \/ \E value \in BOOLEAN : SetFormatOnFileOpen(value)
    \/ \E value \in BOOLEAN : SetFormatOnFocusGain(value)
    \/ \E value \in BOOLEAN : SetFormatOnFocusLoss(value)
    \/ ToggleAutoFormat

SpecSettings == InitSettings /\ [][NextSettings]_vars

\* C19: whenever automatic formatting is enabled, the delay-based mode or
\* the event-based mode is enabled.
C19_AutoFormatHasMode ==
    settings.autoFormatEnabled =>
        (settings.enableDelayBasedFormatting \/ settings.eventBasedFormatting)

----------------------------------------------------------------------------
(* Nested runs: rewrite runs over documents with nested list items         *)

NestedShapes ==
    { <<"-", " ", "a">>,                \* top-level items
      <<"*", " ", "a">>,
      <<"1", ".", " ", "a">>,
      <<" ", "-", " ", "a">>,           \* nested items
      <<" ", "*", " ", "a">>,
      <<" ", "1", ".", " ", "a">>,
      <<>>,                             \* an empty line
      <<"a">> }                         \* prose

InitNested ==
    /\ \E n \in 0..MaxLines : \E ls \in [1..n -> NestedShapes] : \E nl \in BOOLEAN :
          content = Document(ls, nl)
    /\ records = <<>>
    /\ printed = <<>>
    /\ formatted = <<>>
    /\ once = <<>>
    /\ twice = <<>>
    /\ passes = 0
    /\ settings = DEFAULT_SETTINGS
    /\ NoResolverRun
    /\ NoScheduler
    /\ NoPass
    /\ NoSelectionRun
    /\ NoCursorRun

SpecNested == InitNested /\ [][NextRewrite]_vars

IsTopItem(line) == IsListItem(line) /\ Indent(line) = 0

IsNestedItem(line) == IsListItem(line) /\ Indent(line) > 0

\* the output line that is input line j, 0 when the output has no such line
OutIndex(inl, outl, j) == NthNonEmpty(outl, Rank(inl, j))

\* C23: two top-level items of one marker class with only nested items
\* between them: no empty line is put before the second, whatever markers
\* the nested items have.
C23_NestedKeepsTopLevelTight ==
    passes = 1 =>
        LET inl == InLines
            outl == OutLines
        IN  \A i \in 1..Len(inl) : \A j \in (i + 2)..Len(inl) :
                ( /\ IsTopItem(inl[i]) /\ IsTopItem(inl[j])
                  /\ Marker(inl[i]) = Marker(inl[j])
                  /\ \A h \in (i + 1)..(j - 1) : IsNestedItem(inl[h]) ) =>
                    LET r == OutIndex(inl, outl, j)
                    IN  r > 1 /\ outl[r] = inl[j] /\ outl[r - 1] # <<>>

\* C24: no empty line is put before the first nested item under a top-level
\* item, whatever their categories; between two nested items with only empty
\* lines between them there is one empty line when their categories differ
\* and none when they are equal.
C24_NestedSeparation ==
    passes = 1 =>
        LET inl == InLines
            outl == OutLines
        IN  \A i \in 1..Len(inl) : \A j \in (i + 1)..Len(inl) :
                LET q == OutIndex(inl, outl, i)
                    r == OutIndex(inl, outl, j)
                IN  /\ (j = i + 1 /\ IsTopItem(inl[i]) /\ IsNestedItem(inl[j])) =>
                           (q > 0 /\ r = q + 1 /\ outl[r] = inl[j])
                    /\ (IsNestedItem(inl[i]) /\ IsNestedItem(inl[j])
                            /\ Neighbours(inl, i, j)) =>
                           /\ q > 0 /\ r > q
                           /\ outl[q] = inl[i] /\ outl[r] = inl[j]
                           /\ Neighbours(outl, q, r)
                           /\ r - q - 1 = IF ListClass(inl[i]) # ListClass(inl[j])
                                          THEN 1 ELSE 0

----------------------------------------------------------------------------
(* Further claims about the rewriter                                       *)

\* the line holds nothing but white space, or nothing at all
IsBlank(line) == \A h \in 1..Len(line) : IsSpace(line[h])

\* how many lines up to and including line i hold more than white space
ContentRank(lines, i) == Cardinality({h \in 1..i : ~IsBlank(lines[h])})

\* index of the n-th line that holds more than white space, 0 when there
\* are fewer
NthContent(lines, n) ==
    IF \E q \in 1..Len(lines) : ~IsBlank(lines[q]) /\ ContentRank(lines, q) = n
    THEN CHOOSE q \in 1..Len(lines) : ~IsBlank(lines[q]) /\ ContentRank(lines, q) = n
    ELSE 0

\* C25: a line of white space only counts as an empty line: two top-level
\* items of one marker class with nothing but such lines and empty lines
\* between them come out next to each other.
C25_WhitespaceLineIsBlank ==
    passes = 1 =>
        LET inl == InLines
            outl == OutLines
            m == MetaEnd(inl)
        IN  \A i \in 1..Len(inl) : \A j \in (i + 1)..Len(inl) :
                ( /\ i > m
                  /\ IsTopItem(inl[i]) /\ IsTopItem(inl[j])
                  /\ Marker(inl[i]) = Marker(inl[j])
                  /\ \A h \in (i + 1)..(j - 1) : IsBlank(inl[h]) ) =>
                    LET q == NthContent(outl, ContentRank(inl, i))
                        r == NthContent(outl, ContentRank(inl, j))
                    IN  q > 0 /\ outl[q] = inl[i] /\ outl[r] = inl[j] /\ r = q + 1

----------------------------------------------------------------------------
(* Metadata runs: rewrite runs over documents with fences                  *)

MetaShapes ==
    { <<"-", "-", "-">>,                \* the fence
      <<"-", " ", "a">>,                \* top-level items of two classes
      <<"*", " ", "a">>,
      <<>>,                             \* an empty line
      <<"a">> }                         \* prose

InitMeta ==
    /\ \E n \in 0..MaxMetaLines : \E ls \in [1..n -> MetaShapes] : \E nl \in BOOLEAN :
          content = Document(ls, nl)
    /\ records = <<>>
    /\ printed = <<>>
    /\ formatted = <<>>
    /\ once = <<>>
    /\ twice = <<>>
    /\ passes = 0
    /\ settings = DEFAULT_SETTINGS
    /\ NoResolverRun
    /\ NoScheduler
    /\ NoPass
    /\ NoSelectionRun
    /\ NoCursorRun

SpecMeta == InitMeta /\ [][NextRewrite]_vars

\* the awk variables after the first k records
StateAfter(lines, k) == AwkRun(AwkBegin, 1, SubSeq(lines, 1, k))

\* a line of prose no generated document holds
Stand == <<"=">>

\* the lines with every fence past the metadata block replaced by prose
LaterFencesAsProse(lines) ==
    [k \in 1..Len(lines) |->
        IF k > MetaEnd(lines) /\ lines[k] = FENCE THEN Stand ELSE lines[k]]

\* the lines with that prose replaced by the fence again
FencesBack(lines) ==
    [k \in 1..Len(lines) |-> IF lines[k] = Stand THEN FENCE ELSE lines[k]]

\* C26: the script is inside a metadata block exactly from a fence on line 1
\* up to the first later fence, so the block opens at most once and closes
\* at most once; every fence after that is handled as a line of prose would
\* be, and the lines around it by the usual list rules.
C26_MetadataOpensOnce ==
    passes = 1 =>
        LET inl == InLines
        IN  /\ \A k \in 1..Len(inl) :
                  StateAfter(inl, k).in_frontmatter <=>
                      (inl[1] = FENCE /\ k < MetaEnd(inl))
            /\ OutLines = FencesBack(process_markdown(LaterFencesAsProse(inl)))

\* C26 witness: a closed metadata block, then a fence, then two items of one
\* marker with an empty line between them; the pass put an empty line after
\* the fence and made the items tight.
C26_Witness ==
    /\ passes = 1
    /\ LET inl == InLines
           outl == OutLines
           k == MetaEnd(inl)
       IN  /\ k >= 2 /\ Len(inl) = k + 4
           /\ inl[k + 1] = FENCE
           /\ IsTopItem(inl[k + 2]) /\ inl[k + 3] = <<>> /\ inl[k + 4] = inl[k + 2]
           /\ outl = SubSeq(inl, 1, k + 1) \o <<<<>>, inl[k + 2], inl[k + 4]>>

\* line 1 is the fence and no later line is
Unterminated(lines) ==
    /\ lines # <<>>
    /\ lines[1] = FENCE
    /\ \A k \in 2..Len(lines) : lines[k] # FENCE

\* C29: when line 1 is the fence and no later line is, the script prints
\* every line as it read it: nothing is added, dropped or changed.
C29_UnterminatedMetadataKept ==
    (passes = 1 /\ Unterminated(InLines)) => OutLines = InLines

\* C29 witness: an unterminated metadata block went through a pass, holding
\* two items of one marker with an empty line between them and prose
\* directly followed by an item.
C29_Witness ==
    /\ passes = 1
    /\ Unterminated(InLines)
    /\ LET inl == InLines
       IN  /\ \E h \in 2..(Len(inl) - 2) :
                 IsTopItem(inl[h]) /\ inl[h + 1] = <<>> /\ inl[h + 2] = inl[h]
           /\ \E g \in 2..(Len(inl) - 1) :
                 IsProse(inl[g]) /\ IsTopItem(inl[g + 1])

\* C28: for a document without a list-item line the text formatFile
\* computes is the text it read, so nothing is written back.
C28_NoListIdentity ==
    (passes = 1 /\ \A k \in 1..Len(InLines) : ~IsListItem(InLines[k])) =>
        once = content

----------------------------------------------------------------------------
(* Selection runs: one formatSelection invocation on an editor whose user  *)
(* may type while the formatter is awaited.  Editor positions are          *)
(* [line, ch] with lines counted from 1 and ch from 0.                     *)

SelShapes ==
    { <<"-", "-", "-">>,                \* the fence
      <<"-", " ", "a">>,                \* a top-level item
      <<>>,                             \* an empty line
      <<"a">> }                         \* prose

\* the editor's lines of a text: a line terminator at the end opens a last,
\* empty line
RECURSIVE SplitLines(_, _, _, _)
SplitLines(text, i, cur, acc) ==
    IF i > Len(text) THEN Append(acc, cur)
    ELSE IF text[i] = NL
         THEN SplitLines(text, i + 1, <<>>, Append(acc, cur))
         ELSE SplitLines(text, i + 1, Append(cur, text[i]), acc)

EditorLines(text) == SplitLines(text, 1, <<>>, <<>>)

\* editor.posToOffset for a position inside the text
RECURSIVE posToOffset(_, _)
posToOffset(lines, pos) ==
    IF pos.line = 1 THEN pos.ch
    ELSE Len(lines[1]) + 1 + posToOffset(Tail(lines), [pos EXCEPT !.line = @ - 1])

\* editor.getRange
getRange(text, from, to) ==
    SubSeq(text, posToOffset(EditorLines(text), from) + 1,
                 posToOffset(EditorLines(text), to))

\* the text before a position, and the text after it
TextBefore(text, pos) == SubSeq(text, 1, posToOffset(EditorLines(text), pos))

TextAfter(text, pos) == SubSeq(text, posToOffset(EditorLines(text), pos) + 1, Len(text))

\* editor.replaceRange
replaceRange(text, replacement, from, to) ==
    TextBefore(text, from) \o replacement \o TextAfter(text, to)

\* text.match(/^(\n*)/)[1].length
RECURSIVE countLeadingNewlines(_)
countLeadingNewlines(text) ==
    IF text # <<>> /\ Head(text) = NL THEN 1 + countLeadingNewlines(Tail(text)) ELSE 0

\* '\n'.repeat(n)
RECURSIVE Newlines(_)
Newlines(n) == IF n <= 0 THEN <<>> ELSE <<NL>> \o Newlines(n - 1)

\* ensureLeadingNewlines that leaves the text as the formatter gave it
ensureLeadingNewlines_Keeps(text, count) == text

ensureLeadingNewlines(text, count) ==
    IF countLeadingNewlines(text) < count
    THEN Newlines(count - countLeadingNewlines(text)) \o text
    ELSE text

\* formatSelection from the expanded selection to the text it puts in its
\* place, given the formatter's stdout for contentToFormat
SelectionResult(expandedSelection, stdout) ==
    LET leadingNewlines == countLeadingNewlines(expandedSelection)
        contentWithoutLeading ==
            SubSeq(expandedSelection, leadingNewlines + 1, Len(expandedSelection))
    IN  ensureLeadingNewlines(FormattedResult(contentWithoutLeading, stdout),
                              leadingNewlines)

\* the contentToFormat of formatSelection
SelectionToFormat(expandedSelection) ==
    ContentToFormat(SubSeq(expandedSelection,
                           countLeadingNewlines(expandedSelection) + 1,
                           Len(expandedSelection)))

\* position a is before position b
PosBefore(a, b) == a.line < b.line \/ (a.line = b.line /\ a.ch < b.ch)

InitSelection ==
    /\ NoCursorRun
    /\ NoRewriteRun
    /\ NoResolverRun
    /\ NoScheduler
    /\ NoPass
    /\ settings = DEFAULT_SETTINGS
    /\ \E n \in 1..MaxSelLines : \E ls \in [1..n -> SelShapes] :
       \E l1 \in 1..n, l2 \in 1..n :
       \E c1 \in {0, 1}, c2 \in {Len(ls[l2]) - 1, Len(ls[l2])} :
           /\ c1 <= Len(ls[l1]) /\ c2 >= 0
           /\ LET from == [line |-> l1, ch |-> c1]
                  to == [line |-> l2, ch |-> c2]
              IN  /\ from = to \/ PosBefore(from, to)
                  /\ selectionRun =
                        [pc |-> "call", text |-> Joined(ls), original |-> Joined(ls),
                         from |-> from, to |-> to,
                         expandedFrom |-> from, expandedTo |-> to,
                         expandedSelection |-> <<>>, edited |-> FALSE,
                         replaced |-> FALSE]

\* formatSelection up to its await
FormatSelectionCall ==
    /\ selectionRun.pc = "call"
    /\ LET s == selectionRun
           lines == EditorLines(s.text)
           expandedFrom == [line |-> s.from.line, ch |-> 0]
           expandedTo == [line |-> s.to.line, ch |-> Len(lines[s.to.line])]
       IN  selectionRun' =
               IF s.from = s.to
               THEN [s EXCEPT !.pc = "done"]
               ELSE [s EXCEPT !.pc = "await",
                              !.expandedFrom = expandedFrom,
                              !.expandedTo = expandedTo,
                              !.expandedSelection =
                                  getRange(s.text, expandedFrom, expandedTo)]
    /\ UNCHANGED <<settings, rwVars, rsVars, hostVars, pluginVars, passVars, crVars>>

\* the user types a character at the start of line k, outside the selection,
\* while the formatter is awaited; the editor moves the selection with it
TypeAtLineStart(k) ==
    /\ selectionRun.pc = "await"
    /\ ~selectionRun.edited
    /\ LET s == selectionRun
           at == [line |-> k, ch |-> 0]
       IN  /\ k \in 1..Len(EditorLines(s.text))
           /\ PosBefore(at, s.from) \/ k > s.to.line
           /\ selectionRun' =
                 [s EXCEPT !.text = replaceRange(s.text, <<"x">>, at, at),
                           !.from.ch = IF k = s.from.line THEN @ + 1 ELSE @,
                           !.to.ch = IF k = s.to.line THEN @ + 1 ELSE @,
                           !.edited = TRUE]
    /\ UNCHANGED <<settings, rwVars, rsVars, hostVars, pluginVars, passVars, crVars>>

\* runFormatter resolves or rejects; when it resolves the range taken before
\* the await is replaced
FormatSelectionDone(outcome) ==
    /\ selectionRun.pc = "await"
    /\ LET s == selectionRun
           run == ScriptProcess(outcome, SelectionToFormat(s.expandedSelection))
       IN  selectionRun' =
               IF run.ok
               THEN [s EXCEPT !.pc = "done", !.replaced = TRUE,
                              !.text = replaceRange(s.text,
                                          SelectionResult(s.expandedSelection, run.text),
                                          s.expandedFrom, s.expandedTo)]
               ELSE [s EXCEPT !.pc = "done"]
    /\ UNCHANGED <<settings, rwVars, rsVars, hostVars, pluginVars, passVars, crVars>>

NextSelection ==
    \/ FormatSelectionCall
    \/ \E k \in 1..MaxSelLines : TypeAtLineStart(k)
    \/ \E outcome \in Outcomes : FormatSelectionDone(outcome)

SpecSelection == InitSelection /\ [][NextSelection]_vars

\* String.prototype.endsWith
endsWith(s, p) == Len(p) <= Len(s) /\ SubSeq(s, Len(s) - Len(p) + 1, Len(s)) = p

\* the step in which formatSelection ends
SelectionEnds == selectionRun.pc = "await" /\ selectionRun'.pc = "done"

\* the text before the selection and the text after it are, after the step,
\* what they were before it
FrameKept ==
    LET before == TextBefore(selectionRun.text, selectionRun.from)
        after == TextAfter(selectionRun.text, selectionRun.to)
    IN  /\ startsWith(selectionRun'.text, before)
        /\ endsWith(selectionRun'.text, after)
        /\ Len(selectionRun'.text) >= Len(before) + Len(after)

\* C22: formatSelection changes only the selected text: when it ends, the
\* text before the selection and the text after it are what they were, also
\* when the user typed outside the selection while the formatter ran.
C22_SelectionFrameKept == [][SelectionEnds => FrameKept]_vars

\* the script's stdout when no line of the text is taken for a metadata
\* delimiter: every fence is handled as a line of prose
ScriptWithoutMetadata(text) ==
    LET lines == Records(text)
        prose == [k \in 1..Len(lines) |->
                     IF lines[k] = FENCE THEN Stand ELSE lines[k]]
    IN  Printed(FencesBack(process_markdown(prose)))

\* C27: a fence opens a metadata block only on the first line of the
\* document: when the selection starts with a fence on a later line of a
\* document without a metadata block, formatSelection replaces the selected
\* lines by what the list rules give with the fence taken for prose.
C27_SelectionFenceIsProse ==
    LET s == selectionRun
        lines == EditorLines(s.original)
    IN  ( /\ s.pc = "done" /\ s.replaced /\ ~s.edited
          /\ lines[1] # FENCE
          /\ s.from.line > 1
          /\ lines[s.from.line] = FENCE ) =>
            s.text = replaceRange(s.original,
                         SelectionResult(s.expandedSelection,
                             ScriptWithoutMetadata(
                                 SelectionToFormat(s.expandedSelection))),
                         s.expandedFrom, s.expandedTo)

----------------------------------------------------------------------------
(* Folder-rule runs: the scheduler for a document that a folder rule       *)
(* covers, with the rule and the modes changed in the settings tab, and    *)
(* with timers that expire.  Formatting is started by timers only: the     *)
(* event-based mode is off and "Format current file" is not used.          *)

\* the folder of FileA
FolderN == <<"n">>

InitLive ==
    /\ NoRewriteRun
    /\ NoResolverRun
    /\ NoPass
    /\ NoSelectionRun
    /\ NoCursorRun
    /\ settings = [DEFAULT_SETTINGS EXCEPT
                      !.folderRules = <<[path |-> FolderN, enabled |-> TRUE]>>]
    /\ vault = [f \in Files |-> Loose]
    /\ active = NoFile
    /\ selection = FALSE
    /\ timers = <<>>
    /\ lastActiveFile = NoFile
    /\ formatDebounceTimers = [f \in Files |-> NoTimer]
    /\ currentlyFormatting = {}
    /\ runs = EmptyBag
    /\ unloaded = FALSE
    /\ burst = [f \in Files |-> NoBurst]

\* the toggle of a folder rule in the settings tab
SetFolderRuleEnabled(k, value) ==
    /\ k \in 1..Len(settings.folderRules)
    /\ value # settings.folderRules[k].enabled
    /\ settings' = [settings EXCEPT !.folderRules[k].enabled = value]
    /\ UNCHANGED <<hostVars, pluginVars, rwVars, rsVars, passVars, fsVars, crVars>>

\* a pending await of formatFile settles
RunStep ==
    \E r \in BagToSet(runs) :
        \/ ReadDone(r)
        \/ FormatDone(r)
        \/ \E shown \in BOOLEAN : ModifyDone(r, shown)
        \/ Reject(r)

\* an armed timer expires
TimerExpires == \E saved \in BOOLEAN : TimerFire(saved)

NextLive ==
    \/ \E text \in Texts : EditorChange(text)
    \/ TimerExpires
    \/ \E f \in Files, saved \in BOOLEAN : FileOpen(f, saved)
    \/ Select
    \/ ToggleAutoFormat
    \/ \E value \in BOOLEAN : SetDelayBased(value)
    \/ \E value \in BOOLEAN : SetFolderRuleEnabled(1, value)
    \/ RunStep
    \/ Unload

SpecLive ==
    /\ InitLive
    /\ [][NextLive]_vars
    /\ WF_vars(TimerExpires)

\* a timer is armed for the document
Armed(f) == \E i \in DOMAIN timers : timers[i].file = f

\* C30: if from some point on the editor holds no selection, then whenever a
\* timer is armed for a document that the policy covers and that is not
\* being formatted, a fire deferred under a selection included, a formatFile
\* invocation for the document begins later, unless the policy is switched
\* off for it or the plugin unloaded first.
C30_DeferredFormatHappens ==
    (<>[](~selection)) =>
        [](( /\ Armed(FileA)
             /\ shouldAutoFormatFile(FileA, settings)
             /\ ~unloaded
             /\ FileA \notin currentlyFormatting ) =>
                <>( \/ FileA \in currentlyFormatting
                    \/ ~shouldAutoFormatFile(FileA, settings)
                    \/ unloaded ))

\* C30 witness: a fire was deferred under a selection, which armed a timer
\* outside any burst of edits, and the selection has been dropped since.
C30_Witness ==
    /\ active = FileA
    /\ ~selection
    /\ Len(timers) = 1
    /\ formatDebounceTimers[FileA] = timers[1].id
    /\ burst[FileA] = NoBurst
    /\ shouldAutoFormatFile(FileA, settings)
    /\ ~unloaded
    /\ currentlyFormatting = {}

\* the user edits the document while an enabled folder rule covers it and
\* the global setting is off
CoveredEdit ==
    /\ ~settings.autoFormatEnabled
    /\ active = FileA
    /\ \E k \in 1..Len(settings.folderRules) :
          settings.folderRules[k].enabled /\ Covers(settings.folderRules[k].path, FileA)
    /\ vault' # vault
    /\ \E text \in Texts : EditorChange(text)

\* the timer of the latest edit of the document is armed
EditTimerArmed == burst[FileA].open /\ burst[FileA].last \in ArmedIds(timers)

\* C21 (as stated): an edit of a document that an enabled folder rule covers
\* arms the timer that formats it, with the global setting off.
C21_CoveredEditArms == [][CoveredEdit => EditTimerArmed']_vars

\* C21 (amended): with the global setting off, an edit of a document that an
\* enabled folder rule covers arms a timer for it if the delay-based mode is
\* on and the document is not being formatted; and if from some point on the
\* editor holds no selection, a formatFile invocation for the document
\* begins after the edit, unless the rule is switched off or the plugin
\* unloaded first.
C21_CoveredEditFormats ==
    /\ [][( /\ CoveredEdit
            /\ settings.enableDelayBasedFormatting
            /\ FileA \notin currentlyFormatting ) => EditTimerArmed']_vars
    /\ (<>[](~selection)) =>
           [](( /\ EditTimerArmed
                /\ ~settings.autoFormatEnabled
                /\ shouldAutoFormatFile(FileA, settings)
                /\ ~unloaded
                /\ FileA \notin currentlyFormatting ) =>
                   <>( \/ FileA \in currentlyFormatting
                       \/ ~shouldAutoFormatFile(FileA, settings)
                       \/ unloaded ))

\* C21 witness: with the global setting off and the folder rule on, a timer
\* has started an invocation that is about to write the formatted text.
C21_Witness ==
    /\ ~settings.autoFormatEnabled
    /\ settings.folderRules[1].enabled
    /\ \E r \in BagToSet(runs) :
          r.origin = "timer" /\ r.pc = "modify" /\ r.formatted = Tight

----------------------------------------------------------------------------
(* The first line of a pass                                                *)

\* C39: for every non-empty input the first line the script prints is the
\* first line it read: that line is not dropped and nothing is printed
\* before it.
C39_FirstLineKept ==
    (passes = 1 /\ content # <<>>) =>
        /\ OutLines # <<>>
        /\ OutLines[1] = InLines[1]

\* a pass that changed the document below a first line that is an item, an
\* empty line or a fence
C39_Witness ==
    /\ passes = 1
    /\ Len(InLines) >= 2
    /\ OutLines # InLines
    /\ \/ IsListItem(InLines[1])
       \/ InLines[1] = <<>>
    /\ OutLines[1] = InLines[1]

----------------------------------------------------------------------------
(* The order of the rule table                                             *)

\* the table with its entries stored in the order pi
Reordered(t, pi) == [i \in 1..Len(t) |-> t[pi[i]]]

\* C38: the result does not depend on the order in which the rules are
\* stored: every table with the same (path, enabled) entries gives the
\* same shouldAutoFormatFile result for the path.
C38_OrderIndependent ==
    resolved =>
        LET t == settings.folderRules
        IN  \A pi \in Permutations(1..Len(t)) :
                shouldAutoFormatFile(file,
                    [settings EXCEPT !.folderRules = Reordered(t, pi)]) = shouldFormat

\* two rules with different flags cover the path, the shallower one is
\* stored first, and the flag of the deeper one is the result
C38_Witness ==
    /\ resolved
    /\ LET t == settings.folderRules
       IN  /\ Len(t) = 2
           /\ Covers(t[1].path, file) /\ Covers(t[2].path, file)
           /\ Len(SegmentsOf(t[1].path)) < Len(SegmentsOf(t[2].path))
           /\ t[1].enabled # t[2].enabled
           /\ shouldFormat = t[2].enabled
           /\ shouldAutoFormatFile(file,
                  [settings EXCEPT !.folderRules = <<t[2], t[1]>>]) = shouldFormat

----------------------------------------------------------------------------
(* The guard and the invocations in flight                                 *)

\* C37: a document is in currentlyFormatting whenever a formatFile
\* invocation for it is in flight; the guard is not released while another
\* invocation for the document still waits on its read, its formatter or
\* its write-back.
C37_GuardCoversEveryRun ==
    \A r \in BagToSet(runs) : r.file \in currentlyFormatting

----------------------------------------------------------------------------
(* The policy at the time of the fire                                      *)

\* a timer fires for a document that the policy, as the settings are now,
\* does not cover
FireWhenDisabled ==
    /\ timers # <<>>
    /\ ~shouldAutoFormatFile(Head(timers).file, settings)
    /\ timers' # timers
    /\ unloaded' = unloaded
    /\ TimerExpires

\* C32: the policy is resolved again when the timer fires: a fire for a
\* document whose policy is off by then starts no invocation, sets no
\* guard, writes nothing, arms no timer, and removes the document's entry
\* from formatDebounceTimers.
C32_DisabledFireDoesNothing ==
    [][FireWhenDisabled =>
          /\ runs' = runs
          /\ currentlyFormatting' = currentlyFormatting
          /\ vault' = vault
          /\ timers' = Tail(timers)
          /\ formatDebounceTimers'[Head(timers).file] = NoTimer]_vars

\* the timer of the latest edit is armed and held by the map, the document
\* has a list to tighten and no selection, and the folder rule that covered
\* it when the edit armed the timer has been switched off since
C32_Witness ==
    /\ Len(timers) = 1
    /\ timers[1].file = FileA
    /\ formatDebounceTimers[FileA] = timers[1].id
    /\ burst[FileA].open /\ burst[FileA].last = timers[1].id
    /\ ~shouldAutoFormatFile(FileA, settings)
    /\ vault[FileA] = Loose
    /\ active = FileA /\ ~selection
    /\ runs = EmptyBag /\ currentlyFormatting = {}
    /\ ~unloaded

----------------------------------------------------------------------------
(* Formatting started by a file-open, focus-gain or focus-loss event       *)

\* the read of a new invocation started by an event handler for f
EventRead(f) ==
    [file |-> f, origin |-> "event", pc |-> "read", content |-> <<>>,
     formatted |-> <<>>]

\* an event handler starts a formatFile invocation for f
EventStart(f) == CopiesIn(EventRead(f), runs') > CopiesIn(EventRead(f), runs)

\* C31: an invocation started by a file-open, focus-gain or focus-loss event
\* starts only for a document that is not guarded, and not for a document
\* that the active view shows with a non-empty selection.
C31_EventStartChecked ==
    [][\A f \in Files :
          EventStart(f) =>
              /\ f \notin currentlyFormatting
              /\ ~(active' = f /\ selection')]_vars

----------------------------------------------------------------------------
(* Leading newlines of a selection                                         *)

\* the text formatSelection puts in the place of the expanded selection
Replacement ==
    SelectionResult(selectionRun.expandedSelection,
                    runTightListsScript(SelectionToFormat(selectionRun.expandedSelection)))

\* C35: the text that replaces the expanded selection starts with exactly
\* as many newline characters as the expanded selection did, also when the
\* selection holds nothing but newlines.
C35_LeadingNewlinesKept ==
    (selectionRun.pc = "done" /\ selectionRun.replaced) =>
        /\ countLeadingNewlines(Replacement) =
              countLeadingNewlines(selectionRun.expandedSelection)
        /\ ~selectionRun.edited =>
              selectionRun.text =
                  replaceRange(selectionRun.original, Replacement,
                               selectionRun.expandedFrom, selectionRun.expandedTo)

\* a selection that starts with two empty lines and holds a list that the
\* pass made tight
C35_Witness ==
    /\ selectionRun.pc = "done" /\ selectionRun.replaced
    /\ countLeadingNewlines(selectionRun.expandedSelection) = 2
    /\ Replacement # selectionRun.expandedSelection
    /\ countLeadingNewlines(Replacement) = 2

----------------------------------------------------------------------------
(* Cursor runs: one formatFile invocation for FileA, started by the        *)
(* debounce timer or by "Format current file", with the editor of the      *)
(* active view, which shows FileA or another document, and its user, who   *)
(* moves the cursor, selects and types.  Positions are [line, ch] with     *)
(* lines counted from 1 and ch from 0.                                     *)

\* a second document, open in a view of its own
FileB == <<"n", "/", "b">>

\* the text of FileB
OtherText == Loose

\* no position saved
NoPos == <<>>

Position(l, c) == [line |-> l, ch |-> c]

\* the positions an editor with the given text can hold
Positions(text) ==
    UNION { { Position(l, c) : c \in 0..Len(EditorLines(text)[l]) }
            : l \in 1..Len(EditorLines(text)) }

DocStart == Position(1, 0)

\* the text in the editor of the active view
ShownText(c) == IF c.view = FileA THEN c.text ELSE OtherText

\* editor.getSelection() is not empty
hasActiveSelection(c) == c.anchor # c.cursor

\* restoreCursorPosition with the saved position set as it is
restoreCursorPosition_Unbounded(lines, pos) == pos

\* restoreCursorPosition: the position it passes to setCursor and
\* setSelection; lastLine is the number of the editor's last line
restoreCursorPosition(lines, pos) ==
    LET lastLine == Len(lines)
        boundedLine == IF pos.line < lastLine THEN pos.line ELSE lastLine
        lineLength == Len(lines[boundedLine])
        boundedCh == IF pos.ch < lineLength THEN pos.ch ELSE lineLength
    IN  Position(boundedLine, boundedCh)

\* a timer is armed for FileA by an edit; the active view shows FileA or the
\* document the user went on to
InitCursor ==
    /\ NoRewriteRun
    /\ NoResolverRun
    /\ NoScheduler
    /\ NoPass
    /\ NoSelectionRun
    /\ settings = [DEFAULT_SETTINGS EXCEPT !.autoFormatEnabled = TRUE]
    /\ \E view \in {FileA, FileB}, text \in Texts, sel \in BOOLEAN :
       \E pos \in Positions(IF view = FileA THEN text ELSE OtherText) :
           cursorRun =
               [pc |-> "idle", origin |-> "none", view |-> view, text |-> text,
                cursor |-> pos, anchor |-> IF sel THEN DocStart ELSE pos,
                saved |-> NoPos, guard |-> {}, restore |-> FALSE,
                restored |-> FALSE, armed |-> TRUE,
                content |-> <<>>, formatted |-> <<>>]

\* formatFile up to its first await, with the editor of the active view
CursorEnter(c, origin) ==
    [c EXCEPT !.pc = "read", !.origin = origin,
              !.guard = @ \cup {FileA},
              !.saved = c.cursor]

\* the timer of FileA expires; a fire that finds FileA in the active view
\* with a selection arms the next timer and starts nothing
CursorTimerFire ==
    /\ cursorRun.pc = "idle"
    /\ cursorRun.armed
    /\ shouldAutoFormatFile(FileA, settings)
    /\ ~(cursorRun.view = FileA /\ hasActiveSelection(cursorRun))
    /\ cursorRun' = [CursorEnter(cursorRun, "timer") EXCEPT !.armed = FALSE]
    /\ UNCHANGED <<settings, rwVars, rsVars, hostVars, pluginVars, passVars,
                   fsVars>>

\* "Format current file" with FileA in the active view
CursorFormatCurrentFile ==
    /\ cursorRun.pc = "idle"
    /\ cursorRun.view = FileA
    /\ cursorRun' = CursorEnter(cursorRun, "manual")
    /\ UNCHANGED <<settings, rwVars, rsVars, hostVars, pluginVars, passVars,
                   fsVars>>

\* vault.read resolves
CursorReadDone ==
    /\ cursorRun.pc = "read"
    /\ cursorRun' = [cursorRun EXCEPT !.pc = "format", !.content = cursorRun.text]
    /\ UNCHANGED <<settings, rwVars, rsVars, hostVars, pluginVars, passVars,
                   fsVars>>

\* runFormatter resolves; with nothing to write the invocation ends in its
\* finally block
CursorFormatDone ==
    /\ cursorRun.pc = "format"
    /\ LET formattedResult == FormatText(cursorRun.content)
       IN  cursorRun' =
               IF formattedResult # cursorRun.content
               THEN [cursorRun EXCEPT !.pc = "modify", !.formatted = formattedResult]
               ELSE [cursorRun EXCEPT !.pc = "ended", !.guard = @ \ {FileA}]
    /\ UNCHANGED <<settings, rwVars, rsVars, hostVars, pluginVars, passVars,
                   fsVars>>

\* vault.modify resolves: an editor that shows FileA has taken the new text
\* and put its cursor somewhere in it; the restoring of the cursor is set
\* for 50 ms later and the finally block releases the guard
CursorModifyDone(pos, sel) ==
    /\ cursorRun.pc = "modify"
    /\ pos \in Positions(cursorRun.formatted)
    /\ cursorRun' =
           IF cursorRun.view = FileA
           THEN [cursorRun EXCEPT !.pc = "ended", !.text = cursorRun.formatted,
                                  !.cursor = pos,
                                  !.anchor = IF sel THEN DocStart ELSE pos,
                                  !.restored = FALSE,
                                  !.restore = TRUE,
                                  !.guard = @ \ {FileA}]
           ELSE [cursorRun EXCEPT !.pc = "ended", !.text = cursorRun.formatted,
                                  !.restore = TRUE,
                                  !.guard = @ \ {FileA}]
    /\ cursorRun.view = FileB => (pos = DocStart /\ ~sel)
    /\ UNCHANGED <<settings, rwVars, rsVars, hostVars, pluginVars, passVars,
                   fsVars>>

\* vault.read, runFormatter or vault.modify rejects
CursorReject ==
    /\ cursorRun.pc \in {"read", "format", "modify"}
    /\ cursorRun' = [cursorRun EXCEPT !.pc = "ended", !.guard = @ \ {FileA}]
    /\ UNCHANGED <<settings, rwVars, rsVars, hostVars, pluginVars, passVars,
                   fsVars>>

\* the 50 ms are over: restoreCursorPosition on the editor formatFile was
\* given
CursorRestore ==
    /\ cursorRun.restore
    /\ LET to == restoreCursorPosition(EditorLines(ShownText(cursorRun)),
                                       cursorRun.saved)
       IN  cursorRun' = [cursorRun EXCEPT !.restore = FALSE, !.restored = TRUE,
                                          !.cursor = to, !.anchor = to]
    /\ UNCHANGED <<settings, rwVars, rsVars, hostVars, pluginVars, passVars,
                   fsVars>>

\* the user puts the cursor elsewhere in the active editor, or selects from
\* the start of the document up to it
MoveCursor(pos, sel) ==
    /\ pos \in Positions(ShownText(cursorRun))
    /\ cursorRun' = [cursorRun EXCEPT !.cursor = pos,
                                      !.anchor = IF sel THEN DocStart ELSE pos,
                                      !.restored = FALSE]
    /\ cursorRun'.cursor # cursorRun.cursor \/ cursorRun'.anchor # cursorRun.anchor
    /\ UNCHANGED <<settings, rwVars, rsVars, hostVars, pluginVars, passVars,
                   fsVars>>

\* the user changes the text of FileA in the active editor; the
\* editor-change handler arms a timer unless the document is guarded
CursorEdit(text, pos) ==
    /\ cursorRun.view = FileA
    /\ text # cursorRun.text
    /\ pos \in Positions(text)
    /\ cursorRun' =
           [cursorRun EXCEPT
               !.text = text, !.cursor = pos, !.anchor = pos, !.restored = FALSE,
               !.armed = IF FileA \in cursorRun.guard
                         THEN @
                         ELSE @ \/ ( /\ shouldAutoFormatFile(FileA, settings)
                                     /\ settings.enableDelayBasedFormatting )]
    /\ UNCHANGED <<settings, rwVars, rsVars, hostVars, pluginVars, passVars,
                   fsVars>>

NextCursor ==
    \/ CursorTimerFire
    \/ CursorFormatCurrentFile
    \/ CursorReadDone
    \/ CursorFormatDone
    \/ \E pos \in Positions(Loose), sel \in BOOLEAN : CursorModifyDone(pos, sel)
    \/ CursorReject
    \/ CursorRestore
    \/ \E pos \in Positions(Loose), sel \in BOOLEAN : MoveCursor(pos, sel)
    \/ \E text \in Texts : \E pos \in Positions(text) : CursorEdit(text, pos)

SpecCursor == InitCursor /\ [][NextCursor]_vars

\* the step in which restoreCursorPosition runs
RestoreStep == cursorRun.restore /\ ~cursorRun'.restore

\* the smaller of two numbers
Min(a, b) == IF a <= b THEN a ELSE b

\* C33: the cursor is restored before the guard is released: FileA is in
\* currentlyFormatting when restoreCursorPosition runs, and between the
\* write-back and the restoring of the cursor no edit arms a timer for it.
C33_RestoreUnderGuard ==
    [][/\ RestoreStep => FileA \in cursorRun.guard
       /\ (cursorRun.restore /\ cursorRun'.armed) => cursorRun.armed]_vars

\* C34: restoreCursorPosition puts the cursor on line min(saved line, last
\* line) at column min(saved ch, length of that line), which is a position
\* of the editor's text, and leaves no selection.
C34_CursorClamped ==
    [][RestoreStep =>
          LET lines == EditorLines(ShownText(cursorRun))
              to == cursorRun'.cursor
          IN  /\ to.line = Min(cursorRun.saved.line, Len(lines))
              /\ to.ch = Min(cursorRun.saved.ch, Len(lines[to.line]))
              /\ to \in Positions(ShownText(cursorRun'))
              /\ cursorRun'.anchor = to]_vars

\* the pass took an empty line out of FileA, the cursor was saved on the
\* last line, which the document no longer has, and it has been put on the
\* line that is the last one now
C34_Witness ==
    /\ cursorRun.view = FileA
    /\ cursorRun.restored
    /\ cursorRun.content = Loose /\ cursorRun.text = Tight
    /\ cursorRun.saved = Position(Len(EditorLines(Loose)), 0)
    /\ cursorRun.cursor = Position(Len(EditorLines(Tight)), 0)
    /\ cursorRun.anchor = cursorRun.cursor

\* a step of the invocation or of its restoring of the cursor
PassStep == cursorRun'.pc # cursorRun.pc \/ RestoreStep

\* C36: a pass started by FileA's timer while the active view shows FileB
\* does not read the cursor of FileB's editor and leaves its cursor and its
\* selection as they are.
C36_OtherEditorUntouched ==
    [][(cursorRun.view = FileB /\ PassStep /\ cursorRun'.origin = "timer") =>
          /\ cursorRun'.saved = NoPos
          /\ cursorRun'.cursor = cursorRun.cursor
          /\ cursorRun'.anchor = cursorRun.anchor]_vars

====
